---- MODULE Spec2Model ----
(***************************************************************************)
(* Model of regexpp's AST assembler (RegExpParserState), the parser API    *)
(* (RegExpParser) and the parse cache (RegExpParseCache, cloneAST).        *)
(*                                                                         *)
(* Objects live in `heap`, a sequence of records; an object reference is   *)
(* an index into it.  A string is a sequence of one-character strings.     *)
(***************************************************************************)
EXTENDS Integers, Sequences, FiniteSets, TLC

VARIABLES
    heap,       \* every object allocated so far; a reference is an index
    _state,     \* parser instance -> its RegExpParserState fields
    index,      \* parser instance -> reader position of the event stream
    open,       \* parser instance -> is the event stream inside a pattern
    threw,      \* did the last operation throw
    globalParseCache,   \* the process-wide RegExpParseCache
    now,        \* the value of Date.now()
    calls,      \* the parser API calls made so far and what they returned
    groupSpecifiers2018,    \* the GroupSpecifiersAsES2018 of a validator
    groupSpecifiers2025,    \* the GroupSpecifiersAsES2025 of a validator
    walk,       \* where the validators are in the pattern, what they declared
    lru,        \* an LRUCache of small capacity, and the order of its accesses
    visitor,    \* an OptimizedRegExpVisitor and the handler calls of its last visit
    pool        \* an ObjectPool of small capacity, its objects and their holders

vars == <<heap, _state, index, open, threw, globalParseCache, now, calls,
          groupSpecifiers2018, groupSpecifiers2025, walk, lru, visitor, pool>>

\* the components that are driven on their own: the validators' group
\* specifiers, the small LRUCache, the visitor and the object pool
components ==
    <<groupSpecifiers2018, groupSpecifiers2025, walk, lru, visitor, pool>>

----------------------------------------------------------------------------
(* Bounds *)

MaxVisits == 2      \* visits made by the visitor
MaxPoolCalls == 5   \* calls made on the object pool
MaxAccesses == 4    \* get and set calls on the small LRUCache
MaxNodes == 5       \* objects the event-level specification may allocate
MaxCalls == 2       \* parser API calls in one behaviour
MaxClock == 1       \* the last value Date.now() takes
MaxClassNodes == 8  \* objects the events of a character class may allocate
MaxSetNodes == 7    \* objects the events of class set expressions may allocate
MaxReuseNodes == 7  \* objects the events of two patterns on one state may allocate
MaxBranches == 4    \* BranchID objects made for one pattern
MaxDeclarations == 2    \* capture names declared in one pattern

----------------------------------------------------------------------------
(* JavaScript values *)

Null == 0                            \* the null reference
Str(s) == [str |-> s]                \* a string value
Num(n) == [num |-> n]                \* a finite number value
Infinity == [inf |-> TRUE]           \* the number Infinity
NullValue == [null |-> TRUE]         \* null in a scalar field
UndefinedValue == [undefined |-> TRUE]
One(g) == [one |-> g]                \* a reference stored in `resolved`
Many(gs) == [many |-> gs]            \* an array stored in `resolved`

Min(a, b) == IF a < b THEN a ELSE b

\* String.prototype.slice for non-negative arguments
slice(s, from, to) ==
    LET f == Min(from, Len(s))
        t == Min(to, Len(s))
    IN IF f >= t THEN <<>> ELSE SubSeq(s, f + 1, t)

SetField(rec, k, v) == [f \in DOMAIN rec \cup {k} |-> IF f = k THEN v ELSE rec[f]]

\* the module-level dummy objects `{}`
DUMMY_PATTERN == 1
DUMMY_FLAGS == 2
DUMMY_CAPTURING_GROUP == 3
EmptyObject == [f \in {} |-> 0]
InitialHeap == <<EmptyObject, EmptyObject, EmptyObject>>

\* n.type, "undefined" for an object without the field
TypeOf(h, id) ==
    IF id = Null THEN "null"
    ELSE IF "type" \in DOMAIN h[id] THEN h[id].type ELSE "undefined"

----------------------------------------------------------------------------
(* RegExpParserState.  A handler takes the machine S (the fields of the     *)
(* state object, the heap, and `threw`) and returns the machine after it.   *)

RegExpParserState(options) ==
    [ strict |-> options.strict,
      ecmaVersion |-> options.ecmaVersion,
      _node |-> DUMMY_PATTERN,
      _expressionBufferMap |-> <<>>,
      _flags |-> DUMMY_FLAGS,
      _backreferences |-> <<>>,
      _capturingGroups |-> <<>>,
      source |-> <<>> ]

Throw(S) == [S EXCEPT !.threw = TRUE]

NewId(S) == Len(S.heap) + 1

getPattern(S) ==
    IF TypeOf(S.heap, S._node) # "Pattern" THEN Throw(S) ELSE S

getFlags(S) ==
    IF TypeOf(S.heap, S._flags) # "Flags" THEN Throw(S) ELSE S

\* onRegExpFlags writing into the Flags object the state already holds
onRegExpFlags_inPlace(S, start, end, flags) ==
    LET made == [ type |-> "Flags", parent |-> Null, start |-> start, end |-> end,
                  raw |-> Str(slice(S.source, start, end)),
                  global |-> flags.global, ignoreCase |-> flags.ignoreCase,
                  multiline |-> flags.multiline, unicode |-> flags.unicode,
                  sticky |-> flags.sticky, dotAll |-> flags.dotAll,
                  hasIndices |-> flags.hasIndices,
                  unicodeSets |-> flags.unicodeSets ]
    IN IF S._flags = DUMMY_FLAGS
       THEN [S EXCEPT !.heap = Append(@, made), !._flags = NewId(S)]
       ELSE [S EXCEPT !.heap[S._flags] = made]

onRegExpFlags(S, start, end, flags) ==
    [S EXCEPT
        !.heap = Append(@,
            [ type |-> "Flags", parent |-> Null, start |-> start, end |-> end,
              raw |-> Str(slice(S.source, start, end)),
              global |-> flags.global, ignoreCase |-> flags.ignoreCase,
              multiline |-> flags.multiline, unicode |-> flags.unicode,
              sticky |-> flags.sticky, dotAll |-> flags.dotAll,
              hasIndices |-> flags.hasIndices,
              unicodeSets |-> flags.unicodeSets ]),
        !._flags = NewId(S)]

\* onPatternEnter keeping the list of capturing groups
onPatternEnter_keep(S, start) ==
    [S EXCEPT
        !.heap = Append(@,
            [ type |-> "Pattern", parent |-> Null, start |-> start,
              end |-> start, raw |-> Str(<<>>), alternatives |-> <<>> ]),
        !._node = NewId(S),
        !._backreferences = <<>>]

onPatternEnter(S, start) ==
    [S EXCEPT
        !.heap = Append(@,
            [ type |-> "Pattern", parent |-> Null, start |-> start,
              end |-> start, raw |-> Str(<<>>), alternatives |-> <<>> ]),
        !._node = NewId(S),
        !._backreferences = <<>>,
        !._capturingGroups = <<>>]

\* the groups a reference matches: by index, or by name in emission order
MatchingGroups(S, ref) ==
    IF "num" \in DOMAIN ref
    THEN IF ref.num - 1 \in 0 .. Len(S._capturingGroups) - 1
         THEN <<S._capturingGroups[ref.num]>>
         ELSE <<Null>>      \* a one-element array holding undefined
    ELSE SelectSeq(S._capturingGroups, LAMBDA g : S.heap[g].name = ref)

\* ResolveOne taking the first of several matching groups
ResolveOne_first(S, reference) ==
    LET groups == MatchingGroups(S, S.heap[reference].ref)
        h1 == IF Len(groups) >= 1
              THEN [S.heap EXCEPT ![reference].ambiguous = FALSE,
                                  ![reference].resolved =
                                      IF groups[1] = Null THEN UndefinedValue
                                      ELSE One(groups[1])]
              ELSE [S.heap EXCEPT ![reference].ambiguous = TRUE,
                                  ![reference].resolved = Many(groups)]
    IN IF \E i \in 1 .. Len(groups) : groups[i] = Null
       THEN Throw([S EXCEPT !.heap = h1])
       ELSE [S EXCEPT !.heap =
                [id \in DOMAIN h1 |->
                    IF \E i \in 1 .. Len(groups) : groups[i] = id
                    THEN [h1[id] EXCEPT !.references = Append(@, reference)]
                    ELSE h1[id]]]

\* one iteration of the loop over this._backreferences
ResolveOne(S, reference) ==
    LET groups == MatchingGroups(S, S.heap[reference].ref)
        h1 == IF Len(groups) = 1
              THEN [S.heap EXCEPT ![reference].ambiguous = FALSE,
                                  ![reference].resolved =
                                      IF groups[1] = Null THEN UndefinedValue
                                      ELSE One(groups[1])]
              ELSE [S.heap EXCEPT ![reference].ambiguous = TRUE,
                                  ![reference].resolved = Many(groups)]
    IN IF \E i \in 1 .. Len(groups) : groups[i] = Null
       THEN Throw([S EXCEPT !.heap = h1])    \* undefined.references
       ELSE [S EXCEPT !.heap =
                [id \in DOMAIN h1 |->
                    IF \E i \in 1 .. Len(groups) : groups[i] = id
                    THEN [h1[id] EXCEPT !.references = Append(@, reference)]
                    ELSE h1[id]]]

RECURSIVE ResolveFrom(_, _)
ResolveFrom(S, i) ==
    IF S.threw \/ i > Len(S._backreferences) THEN S
    ELSE ResolveFrom(ResolveOne(S, S._backreferences[i]), i + 1)

onPatternLeave(S, start, end) ==
    LET S1 == [S EXCEPT
                 !.heap[S._node] =
                     SetField(SetField(@, "end", end),
                              "raw", Str(slice(S.source, start, end)))]
    IN ResolveFrom(S1, 1)

onAlternativeEnter(S, start) ==
    LET parent == S._node IN
    IF TypeOf(S.heap, parent) \notin {"Assertion", "CapturingGroup", "Group", "Pattern"}
    THEN Throw(S)
    ELSE [S EXCEPT
            !.heap = Append([@ EXCEPT ![parent].alternatives = Append(@, NewId(S))],
                [ type |-> "Alternative", parent |-> parent, start |-> start,
                  end |-> start, raw |-> Str(<<>>), elements |-> <<>> ]),
            !._node = NewId(S)]

onAlternativeLeave(S, start, end) ==
    LET node == S._node IN
    IF TypeOf(S.heap, node) # "Alternative"
    THEN Throw(S)
    ELSE [S EXCEPT
            !.heap[node].end = end,
            !.heap[node].raw = Str(slice(S.source, start, end)),
            !._node = S.heap[node].parent]

\* onCapturingGroupEnter putting the group at the front of the list
onCapturingGroupEnter_unshift(S, start, name) ==
    LET parent == S._node IN
    IF TypeOf(S.heap, parent) # "Alternative"
    THEN Throw(S)
    ELSE [S EXCEPT
            !.heap = Append([@ EXCEPT ![parent].elements = Append(@, NewId(S))],
                [ type |-> "CapturingGroup", parent |-> parent, start |-> start,
                  end |-> start, raw |-> Str(<<>>), name |-> name,
                  alternatives |-> <<>>, references |-> <<>> ]),
            !._node = NewId(S),
            !._capturingGroups = <<NewId(S)>> \o @]

onCapturingGroupEnter(S, start, name) ==
    LET parent == S._node IN
    IF TypeOf(S.heap, parent) # "Alternative"
    THEN Throw(S)
    ELSE [S EXCEPT
            !.heap = Append([@ EXCEPT ![parent].elements = Append(@, NewId(S))],
                [ type |-> "CapturingGroup", parent |-> parent, start |-> start,
                  end |-> start, raw |-> Str(<<>>), name |-> name,
                  alternatives |-> <<>>, references |-> <<>> ]),
            !._node = NewId(S),
            !._capturingGroups = Append(@, NewId(S))]

onCapturingGroupLeave(S, start, end) ==
    LET node == S._node IN
    IF \/ TypeOf(S.heap, node) # "CapturingGroup"
       \/ TypeOf(S.heap, S.heap[node].parent) # "Alternative"
    THEN Throw(S)
    ELSE [S EXCEPT
            !.heap[node].end = end,
            !.heap[node].raw = Str(slice(S.source, start, end)),
            !._node = S.heap[node].parent]

\* NotQuantifiable without the test for a Quantifier
NotQuantifiable_lax(h, element) ==
    \/ element = Null
    \/ (TypeOf(h, element) = "Assertion" /\ h[element].kind # "lookahead")

\* the test of parser.ts:364-368 on the popped element
NotQuantifiable(h, element) ==
    \/ element = Null
    \/ TypeOf(h, element) = "Quantifier"
    \/ (TypeOf(h, element) = "Assertion" /\ h[element].kind # "lookahead")

\* onQuantifier starting the Quantifier at the quantifier symbol
onQuantifier_ownStart(S, start, end, min, max, greedy) ==
    LET parent == S._node IN
    IF TypeOf(S.heap, parent) # "Alternative"
    THEN Throw(S)
    ELSE
    LET elements == S.heap[parent].elements
        element == IF Len(elements) = 0 THEN Null ELSE elements[Len(elements)]
        popped == IF Len(elements) = 0 THEN elements
                  ELSE SubSeq(elements, 1, Len(elements) - 1)
        S1 == [S EXCEPT !.heap[parent].elements = popped]
    IN IF NotQuantifiable(S.heap, element)
       THEN Throw(S1)
       ELSE [S1 EXCEPT
               !.heap = Append([@ EXCEPT ![parent].elements = Append(@, NewId(S)),
                                         ![element].parent = NewId(S)],
                   [ type |-> "Quantifier", parent |-> parent,
                     start |-> start, end |-> end,
                     raw |-> Str(slice(S.source, start, end)),
                     min |-> min, max |-> max, greedy |-> greedy,
                     element |-> element ])]

onQuantifier(S, start, end, min, max, greedy) ==
    LET parent == S._node IN
    IF TypeOf(S.heap, parent) # "Alternative"
    THEN Throw(S)
    ELSE
    LET elements == S.heap[parent].elements
        element == IF Len(elements) = 0 THEN Null ELSE elements[Len(elements)]
        popped == IF Len(elements) = 0 THEN elements
                  ELSE SubSeq(elements, 1, Len(elements) - 1)
        S1 == [S EXCEPT !.heap[parent].elements = popped]
    IN IF NotQuantifiable(S.heap, element)
       THEN Throw(S1)
       ELSE [S1 EXCEPT
               !.heap = Append([@ EXCEPT ![parent].elements = Append(@, NewId(S)),
                                         ![element].parent = NewId(S)],
                   [ type |-> "Quantifier", parent |-> parent,
                     start |-> S.heap[element].start, end |-> end,
                     raw |-> Str(slice(S.source, S.heap[element].start, end)),
                     min |-> min, max |-> max, greedy |-> greedy,
                     element |-> element ])]

onLookaroundAssertionEnter(S, start, kind, negate) ==
    LET parent == S._node IN
    IF TypeOf(S.heap, parent) # "Alternative"
    THEN Throw(S)
    ELSE [S EXCEPT
            !.heap = Append([@ EXCEPT ![parent].elements = Append(@, NewId(S))],
                [ type |-> "Assertion", parent |-> parent, start |-> start,
                  end |-> start, raw |-> Str(<<>>), kind |-> kind,
                  negate |-> negate, alternatives |-> <<>> ]),
            !._node = NewId(S)]

onLookaroundAssertionLeave(S, start, end) ==
    LET node == S._node IN
    IF \/ TypeOf(S.heap, node) # "Assertion"
       \/ TypeOf(S.heap, S.heap[node].parent) # "Alternative"
    THEN Throw(S)
    ELSE [S EXCEPT
            !.heap[node].end = end,
            !.heap[node].raw = Str(slice(S.source, start, end)),
            !._node = S.heap[node].parent]

onEdgeAssertion(S, start, end, kind) ==
    LET parent == S._node IN
    IF TypeOf(S.heap, parent) # "Alternative"
    THEN Throw(S)
    ELSE [S EXCEPT
            !.heap = Append([@ EXCEPT ![parent].elements = Append(@, NewId(S))],
                [ type |-> "Assertion", parent |-> parent, start |-> start,
                  end |-> end, raw |-> Str(slice(S.source, start, end)),
                  kind |-> kind ])]

\* onCharacter putting the character in front of the elements
onCharacter_unshift(S, start, end, value) ==
    LET parent == S._node IN
    IF TypeOf(S.heap, parent) \notin {"Alternative", "CharacterClass", "StringAlternative"}
    THEN Throw(S)
    ELSE [S EXCEPT
            !.heap = Append([@ EXCEPT ![parent].elements = <<NewId(S)>> \o @],
                [ type |-> "Character", parent |-> parent, start |-> start,
                  end |-> end, raw |-> Str(slice(S.source, start, end)),
                  value |-> value ])]

onCharacter(S, start, end, value) ==
    LET parent == S._node IN
    IF TypeOf(S.heap, parent) \notin {"Alternative", "CharacterClass", "StringAlternative"}
    THEN Throw(S)
    ELSE [S EXCEPT
            !.heap = Append([@ EXCEPT ![parent].elements = Append(@, NewId(S))],
                [ type |-> "Character", parent |-> parent, start |-> start,
                  end |-> end, raw |-> Str(slice(S.source, start, end)),
                  value |-> value ])]

onBackreference(S, start, end, ref) ==
    LET parent == S._node IN
    IF TypeOf(S.heap, parent) # "Alternative"
    THEN Throw(S)
    ELSE [S EXCEPT
            !.heap = Append([@ EXCEPT ![parent].elements = Append(@, NewId(S))],
                [ type |-> "Backreference", parent |-> parent, start |-> start,
                  end |-> end, raw |-> Str(slice(S.source, start, end)),
                  ref |-> ref, ambiguous |-> FALSE,
                  resolved |-> One(DUMMY_CAPTURING_GROUP) ]),
            !._backreferences = Append(@, NewId(S))]

----------------------------------------------------------------------------
(* RegExpParserState: the remaining Enter/Leave pairs and leaf events.      *)

\* parent[key].push(node) with the cursor as parent
Push(S, key, node) ==
    [S EXCEPT !.heap = Append([@ EXCEPT ![S._node][key] = Append(@, NewId(S))],
                              node)]

\* node.end = end; node.raw = ...; this._node = node.parent
Finish(S, start, end) ==
    [S EXCEPT !.heap[S._node].end = end,
              !.heap[S._node].raw = Str(slice(S.source, start, end)),
              !._node = S.heap[S._node].parent]

\* onGroupEnter that leaves the cursor where it is
onGroupEnter_flat(S, start) ==
    IF TypeOf(S.heap, S._node) # "Alternative" THEN Throw(S)
    ELSE Push(S, "elements",
              [ type |-> "Group", parent |-> S._node, start |-> start,
                end |-> start, raw |-> Str(<<>>), modifiers |-> Null,
                alternatives |-> <<>> ])

onGroupEnter(S, start) ==
    IF TypeOf(S.heap, S._node) # "Alternative" THEN Throw(S)
    ELSE [Push(S, "elements",
               [ type |-> "Group", parent |-> S._node, start |-> start,
                 end |-> start, raw |-> Str(<<>>), modifiers |-> Null,
                 alternatives |-> <<>> ])
            EXCEPT !._node = NewId(S)]

onGroupLeave(S, start, end) ==
    IF \/ TypeOf(S.heap, S._node) # "Group"
       \/ TypeOf(S.heap, S.heap[S._node].parent) # "Alternative"
    THEN Throw(S)
    ELSE Finish(S, start, end)

onModifiersEnter(S, start) ==
    IF TypeOf(S.heap, S._node) # "Group" THEN Throw(S)
    ELSE [S EXCEPT
            !.heap = Append([@ EXCEPT ![S._node].modifiers = NewId(S)],
                [ type |-> "Modifiers", parent |-> S._node, start |-> start,
                  end |-> start, raw |-> Str(<<>>), add |-> Null,
                  remove |-> Null ]),
            !._node = NewId(S)]

onModifiersLeave(S, start, end) ==
    IF \/ TypeOf(S.heap, S._node) # "Modifiers"
       \/ TypeOf(S.heap, S.heap[S._node].parent) # "Group"
    THEN Throw(S)
    ELSE Finish(S, start, end)

onWordBoundaryAssertion(S, start, end, kind, negate) ==
    IF TypeOf(S.heap, S._node) # "Alternative" THEN Throw(S)
    ELSE Push(S, "elements",
              [ type |-> "Assertion", parent |-> S._node, start |-> start,
                end |-> end, raw |-> Str(slice(S.source, start, end)),
                kind |-> kind, negate |-> negate ])

onAnyCharacterSet(S, start, end, kind) ==
    IF TypeOf(S.heap, S._node) # "Alternative" THEN Throw(S)
    ELSE Push(S, "elements",
              [ type |-> "CharacterSet", parent |-> S._node, start |-> start,
                end |-> end, raw |-> Str(slice(S.source, start, end)),
                kind |-> kind ])

onEscapeCharacterSet(S, start, end, kind, negate) ==
    IF TypeOf(S.heap, S._node) \notin {"Alternative", "CharacterClass"}
    THEN Throw(S)
    ELSE Push(S, "elements",
              [ type |-> "CharacterSet", parent |-> S._node, start |-> start,
                end |-> end, raw |-> Str(slice(S.source, start, end)),
                kind |-> kind, negate |-> negate ])

onUnicodePropertyCharacterSet(S, start, end, kind, key, value, negate, strings) ==
    IF TypeOf(S.heap, S._node) \notin {"Alternative", "CharacterClass"}
    THEN Throw(S)
    ELSE IF /\ strings
            /\ \/ /\ TypeOf(S.heap, S._node) = "CharacterClass"
                  /\ ~S.heap[S._node].unicodeSets
               \/ negate
               \/ value # NullValue
    THEN Throw(S)
    ELSE Push(S, "elements",
              [ type |-> "CharacterSet", parent |-> S._node, start |-> start,
                end |-> end, raw |-> Str(slice(S.source, start, end)),
                kind |-> kind, strings |-> strings, key |-> key,
                value |-> value, negate |-> negate ])

onClassStringDisjunctionEnter(S, start) ==
    IF \/ TypeOf(S.heap, S._node) # "CharacterClass"
       \/ ~S.heap[S._node].unicodeSets
    THEN Throw(S)
    ELSE [Push(S, "elements",
               [ type |-> "ClassStringDisjunction", parent |-> S._node,
                 start |-> start, end |-> start, raw |-> Str(<<>>),
                 alternatives |-> <<>> ])
            EXCEPT !._node = NewId(S)]

onClassStringDisjunctionLeave(S, start, end) ==
    IF \/ TypeOf(S.heap, S._node) # "ClassStringDisjunction"
       \/ TypeOf(S.heap, S.heap[S._node].parent) # "CharacterClass"
    THEN Throw(S)
    ELSE Finish(S, start, end)

onStringAlternativeEnter(S, start) ==
    IF TypeOf(S.heap, S._node) # "ClassStringDisjunction" THEN Throw(S)
    ELSE [Push(S, "alternatives",
               [ type |-> "StringAlternative", parent |-> S._node,
                 start |-> start, end |-> start, raw |-> Str(<<>>),
                 elements |-> <<>> ])
            EXCEPT !._node = NewId(S)]

onStringAlternativeLeave(S, start, end) ==
    IF TypeOf(S.heap, S._node) # "StringAlternative" THEN Throw(S)
    ELSE Finish(S, start, end)

----------------------------------------------------------------------------
(* RegExpParserState: character classes.  _expressionBufferMap lists the    *)
(* entries of the Map in insertion order.                                   *)

HYPHEN_MINUS == 45

\* isClassSetOperand of parser.ts:45-55 on the type of a node
isClassSetOperand(type) ==
    type \in {"Character", "CharacterSet", "CharacterClass",
              "ExpressionCharacterClass", "ClassStringDisjunction"}

\* Map.get: the value stored under key, Null (undefined) when absent
BufferGet(map, key) ==
    IF \E i \in 1 .. Len(map) : map[i].key = key
    THEN map[CHOOSE i \in 1 .. Len(map) : map[i].key = key].value
    ELSE Null

\* Map.set: in place when the key is present, at the end otherwise
BufferSet(map, key, value) ==
    IF \E i \in 1 .. Len(map) : map[i].key = key
    THEN [i \in 1 .. Len(map) |->
             IF map[i].key = key THEN [key |-> key, value |-> value] ELSE map[i]]
    ELSE Append(map, [key |-> key, value |-> value])

\* Map.delete
BufferDelete(map, key) == SelectSeq(map, LAMBDA e : e.key # key)

\* Array.prototype.pop: the array after the call and the element removed,
\* Null (undefined) for an empty array
Pop(elements) ==
    IF Len(elements) = 0 THEN [rest |-> elements, item |-> Null]
    ELSE [rest |-> SubSeq(elements, 1, Len(elements) - 1),
          item |-> elements[Len(elements)]]

onCharacterClassEnter(S, start, negate, unicodeSets) ==
    LET parent == S._node IN
    IF \/ TypeOf(S.heap, parent) = "Alternative"
       \/ /\ TypeOf(S.heap, parent) = "CharacterClass"
          /\ S.heap[parent].unicodeSets
          /\ unicodeSets
    THEN [S EXCEPT
            !.heap = Append([@ EXCEPT ![parent].elements = Append(@, NewId(S))],
                [ type |-> "CharacterClass", parent |-> parent, start |-> start,
                  end |-> start, raw |-> Str(<<>>), unicodeSets |-> unicodeSets,
                  negate |-> negate, elements |-> <<>> ]),
            !._node = NewId(S)]
    ELSE Throw(S)

\* onCharacterClassLeave without the repair of expression.parent
onCharacterClassLeave_stale(S, start, end) ==
    LET node == S._node IN
    IF \/ TypeOf(S.heap, node) # "CharacterClass"
       \/ TypeOf(S.heap, S.heap[node].parent) \notin {"Alternative", "CharacterClass"}
    THEN Throw(S)
    ELSE
    LET parent == S.heap[node].parent
        S1 == [S EXCEPT !.heap[node].end = end,
                        !.heap[node].raw = Str(slice(S.source, start, end)),
                        !._node = parent]
        expression == BufferGet(S._expressionBufferMap, node)
        popped == Pop(S1.heap[parent].elements)
        newNode == [ type |-> "ExpressionCharacterClass", parent |-> parent,
                     start |-> S1.heap[node].start, end |-> S1.heap[node].end,
                     raw |-> S1.heap[node].raw, negate |-> S1.heap[node].negate,
                     expression |-> expression ]
    IN IF expression = Null THEN S1
       ELSE IF Len(S1.heap[node].elements) > 0 THEN Throw(S1)
       ELSE LET S2 == [S1 EXCEPT
                         !._expressionBufferMap = BufferDelete(@, node),
                         !.heap = Append([@ EXCEPT ![parent].elements = popped.rest],
                                         newNode)]
            IN IF popped.item # node THEN Throw(S2)
               ELSE [S2 EXCEPT !.heap[parent].elements = Append(@, NewId(S1))]

onCharacterClassLeave(S, start, end) ==
    LET node == S._node IN
    IF \/ TypeOf(S.heap, node) # "CharacterClass"
       \/ TypeOf(S.heap, S.heap[node].parent) \notin {"Alternative", "CharacterClass"}
    THEN Throw(S)
    ELSE
    LET parent == S.heap[node].parent
        S1 == [S EXCEPT !.heap[node].end = end,
                        !.heap[node].raw = Str(slice(S.source, start, end)),
                        !._node = parent]
        expression == BufferGet(S._expressionBufferMap, node)
        popped == Pop(S1.heap[parent].elements)
        newNode == [ type |-> "ExpressionCharacterClass", parent |-> parent,
                     start |-> S1.heap[node].start, end |-> S1.heap[node].end,
                     raw |-> S1.heap[node].raw, negate |-> S1.heap[node].negate,
                     expression |-> expression ]
    IN IF expression = Null THEN S1
       ELSE IF Len(S1.heap[node].elements) > 0 THEN Throw(S1)
       ELSE LET S2 == [S1 EXCEPT
                         !._expressionBufferMap = BufferDelete(@, node),
                         !.heap = Append([@ EXCEPT ![expression].parent = NewId(S1),
                                                   ![parent].elements = popped.rest],
                                         newNode)]
            IN IF popped.item # node THEN Throw(S2)
               ELSE [S2 EXCEPT !.heap[parent].elements = Append(@, NewId(S1))]

\* onCharacterClassRange leaving max with the class as its parent
onCharacterClassRange_orphan(S, start, end) ==
    LET parent == S._node IN
    IF TypeOf(S.heap, parent) # "CharacterClass" THEN Throw(S)
    ELSE
    LET p1 == Pop(S.heap[parent].elements)
        max == p1.item
        p2 == IF S.heap[parent].unicodeSets THEN [rest |-> p1.rest, item |-> Null]
              ELSE Pop(p1.rest)
        hyphen == p2.item
        p3 == Pop(p2.rest)
        min == p3.item
        Popped(p) == [S EXCEPT !.heap[parent].elements = p.rest]
    IN IF TypeOf(S.heap, max) # "Character" THEN Throw(Popped(p1))
       ELSE IF /\ ~S.heap[parent].unicodeSets
               /\ \/ TypeOf(S.heap, hyphen) # "Character"
                  \/ S.heap[hyphen].value # HYPHEN_MINUS
       THEN Throw(Popped(p2))
       ELSE IF TypeOf(S.heap, min) # "Character" THEN Throw(Popped(p3))
       ELSE [S EXCEPT
               !.heap = Append([@ EXCEPT ![parent].elements = Append(p3.rest, NewId(S)),
                                         ![min].parent = NewId(S)],
                   [ type |-> "CharacterClassRange", parent |-> parent,
                     start |-> start, end |-> end,
                     raw |-> Str(slice(S.source, start, end)),
                     min |-> min, max |-> max ])]

\* onCharacterClassRange taking the hyphen for min and leaving the first
\* character in the class
onCharacterClassRange_hyphen(S, start, end) ==
    LET parent == S._node IN
    IF TypeOf(S.heap, parent) # "CharacterClass" THEN Throw(S)
    ELSE
    LET p1 == Pop(S.heap[parent].elements)
        max == p1.item
        p2 == Pop(p1.rest)
        min == p2.item
        Popped(p) == [S EXCEPT !.heap[parent].elements = p.rest]
    IN IF TypeOf(S.heap, max) # "Character" THEN Throw(Popped(p1))
       ELSE IF TypeOf(S.heap, min) # "Character" THEN Throw(Popped(p2))
       ELSE [S EXCEPT
               !.heap = Append([@ EXCEPT ![parent].elements = Append(p2.rest, NewId(S)),
                                         ![min].parent = NewId(S),
                                         ![max].parent = NewId(S)],
                   [ type |-> "CharacterClassRange", parent |-> parent,
                     start |-> start, end |-> end,
                     raw |-> Str(slice(S.source, start, end)),
                     min |-> min, max |-> max ])]

onCharacterClassRange(S, start, end) ==
    LET parent == S._node IN
    IF TypeOf(S.heap, parent) # "CharacterClass" THEN Throw(S)
    ELSE
    LET p1 == Pop(S.heap[parent].elements)
        max == p1.item
        p2 == IF S.heap[parent].unicodeSets THEN [rest |-> p1.rest, item |-> Null]
              ELSE Pop(p1.rest)
        hyphen == p2.item
        p3 == Pop(p2.rest)
        min == p3.item
        Popped(p) == [S EXCEPT !.heap[parent].elements = p.rest]
    IN IF TypeOf(S.heap, max) # "Character" THEN Throw(Popped(p1))
       ELSE IF /\ ~S.heap[parent].unicodeSets
               /\ \/ TypeOf(S.heap, hyphen) # "Character"
                  \/ S.heap[hyphen].value # HYPHEN_MINUS
       THEN Throw(Popped(p2))
       ELSE IF TypeOf(S.heap, min) # "Character" THEN Throw(Popped(p3))
       ELSE [S EXCEPT
               !.heap = Append([@ EXCEPT ![parent].elements = Append(p3.rest, NewId(S)),
                                         ![min].parent = NewId(S),
                                         ![max].parent = NewId(S)],
                   [ type |-> "CharacterClassRange", parent |-> parent,
                     start |-> start, end |-> end,
                     raw |-> Str(slice(S.source, start, end)),
                     min |-> min, max |-> max ])]

\* the body shared by onClassIntersection and onClassSubtraction: `type` is
\* the node built, Refused(left, right) the test of parser.ts:716-722, 750-756
ClassSetOperation(S, start, end, type, Refused(_, _)) ==
    LET parent == S._node IN
    IF TypeOf(S.heap, parent) # "CharacterClass" \/ ~S.heap[parent].unicodeSets
    THEN Throw(S)
    ELSE
    LET p1 == Pop(S.heap[parent].elements)
        right == p1.item
        buffered == BufferGet(S._expressionBufferMap, parent)
        p2 == IF buffered # Null THEN [rest |-> p1.rest, item |-> buffered]
              ELSE Pop(p1.rest)
        left == p2.item
        S1 == [S EXCEPT !.heap[parent].elements = p2.rest]
    IN IF left = Null \/ right = Null
          \/ Refused(TypeOf(S.heap, left), TypeOf(S.heap, right))
       THEN Throw(S1)
       ELSE [S1 EXCEPT
               !.heap = Append([@ EXCEPT ![left].parent = NewId(S),
                                         ![right].parent = NewId(S)],
                   [ type |-> type, parent |-> parent,
                     start |-> start, end |-> end,
                     raw |-> Str(slice(S.source, start, end)),
                     left |-> left, right |-> right ]),
               !._expressionBufferMap = BufferSet(@, parent, NewId(S))]

\* onClassIntersection taking any operator node as its left operand
onClassIntersection_mixed(S, start, end) ==
    ClassSetOperation(S, start, end, "ClassIntersection",
        LAMBDA left, right :
            \/ (left \notin {"ClassIntersection", "ClassSubtraction"}
                  /\ ~isClassSetOperand(left))
            \/ ~isClassSetOperand(right))

onClassIntersection(S, start, end) ==
    ClassSetOperation(S, start, end, "ClassIntersection",
        LAMBDA left, right :
            \/ left = "ClassSubtraction"
            \/ (left # "ClassIntersection" /\ ~isClassSetOperand(left))
            \/ ~isClassSetOperand(right))

onClassSubtraction(S, start, end) ==
    ClassSetOperation(S, start, end, "ClassSubtraction",
        LAMBDA left, right :
            \/ left = "ClassIntersection"
            \/ (left # "ClassSubtraction" /\ ~isClassSetOperand(left))
            \/ ~isClassSetOperand(right))

----------------------------------------------------------------------------
(* cache.ts: LRUCache.  `cache` lists the entries of the Map in insertion   *)
(* order; `time` is the value of Date.now() during the call.                *)

LRUCache(maxSize) == [cache |-> <<>>, maxSize |-> maxSize]

\* position of key in the Map, 0 when absent
Position(c, key) ==
    IF \E i \in 1 .. Len(c.cache) : c.cache[i].key = key
    THEN CHOOSE i \in 1 .. Len(c.cache) : c.cache[i].key = key
    ELSE 0

\* LRUCache.get: the cache after the call, and the value (Null: undefined)
LRUCache_get(c, key, time) ==
    LET i == Position(c, key) IN
    IF i # 0
    THEN [c |-> [c EXCEPT !.cache[i].timestamp = time], value |-> c.cache[i].value]
    ELSE [c |-> c, value |-> Null]

\* LRUCache.set evicting only above capacity
LRUCache_set_late(c, key, value, time) ==
    LET oldest == CHOOSE i \in 1 .. Len(c.cache) :
                      /\ \A j \in 1 .. Len(c.cache) :
                             c.cache[i].timestamp <= c.cache[j].timestamp
                      /\ \A j \in 1 .. i - 1 :
                             c.cache[j].timestamp > c.cache[i].timestamp
        evicted == IF Len(c.cache) > c.maxSize
                   THEN SubSeq(c.cache, 1, oldest - 1)
                            \o SubSeq(c.cache, oldest + 1, Len(c.cache))
                   ELSE c.cache
        c1 == [c EXCEPT !.cache = evicted]
        i == Position(c1, key)
        entry == [key |-> key, value |-> value, timestamp |-> time]
    IN IF i # 0
       THEN [c1 EXCEPT !.cache[i] = entry]
       ELSE [c1 EXCEPT !.cache = Append(@, entry)]

\* LRUCache.set: at capacity the first entry with the least timestamp goes,
\* then the key is set in place or added at the end
LRUCache_set(c, key, value, time) ==
    LET oldest == CHOOSE i \in 1 .. Len(c.cache) :
                      /\ \A j \in 1 .. Len(c.cache) :
                             c.cache[i].timestamp <= c.cache[j].timestamp
                      /\ \A j \in 1 .. i - 1 :
                             c.cache[j].timestamp > c.cache[i].timestamp
        evicted == IF Len(c.cache) >= c.maxSize /\ Len(c.cache) > 0
                   THEN SubSeq(c.cache, 1, oldest - 1)
                            \o SubSeq(c.cache, oldest + 1, Len(c.cache))
                   ELSE c.cache
        c1 == [c EXCEPT !.cache = evicted]
        i == Position(c1, key)
        entry == [key |-> key, value |-> value, timestamp |-> time]
    IN IF i # 0
       THEN [c1 EXCEPT !.cache[i] = entry]
       ELSE [c1 EXCEPT !.cache = Append(@, entry)]

LRUCache_has(c, key) == Position(c, key) # 0

LRUCache_clear(c) == [c EXCEPT !.cache = <<>>]

\* the capacity of the LRUCache that is driven on its own
SmallSize == 2

----------------------------------------------------------------------------
(* cache.ts: cloneAST.  JSON.stringify walks the own properties of an       *)
(* object in insertion order; the text it writes is modelled as the tree    *)
(* of values it describes.                                                  *)

INFINITY_MARK ==
    <<"_", "_", "_", "I", "N", "F", "I", "N", "I", "T", "Y", "_", "_", "_">>

NEG_INFINITY_MARK ==
    <<"_", "_", "_", "N", "E", "G", "_", "I", "N", "F", "I", "N", "I", "T", "Y",
      "_", "_", "_">>

NegInfinity == [neginf |-> TRUE]

\* the properties holding a string, a number or null whose content varies
ValueKeys == {"raw", "name", "ref", "max"}

IsRange(n) == "type" \in DOMAIN n /\ n.type = "CharacterClassRange"

\* the object-valued properties of n, in insertion order
ObjectKeys(n) ==
    LET order == <<"pattern", "flags", "modifiers", "min", "max", "alternatives",
                   "elements", "references", "element", "resolved", "expression",
                   "left", "right", "add", "remove">>
    IN SelectSeq(order, LAMBDA k :
           /\ k \in DOMAIN n
           /\ (k \in {"min", "max"} => IsRange(n)))

ScalarKeys(n) ==
    {k \in DOMAIN n : k # "parent" /\ \A i \in 1 .. Len(ObjectKeys(n)) : ObjectKeys(n)[i] # k}

\* the replacer of cache.ts:79-96 on a scalar property
Replacer(k, v) ==
    IF k \notin ValueKeys THEN v
    ELSE IF v = Infinity THEN Str(INFINITY_MARK)
    ELSE IF v = NegInfinity THEN Str(NEG_INFINITY_MARK)
    ELSE v

\* the reviver of cache.ts:98-106 on a scalar property
Reviver(k, v) ==
    IF k \notin ValueKeys THEN v
    ELSE IF v = Str(INFINITY_MARK) THEN Infinity
    ELSE IF v = Str(NEG_INFINITY_MARK) THEN NegInfinity
    ELSE v

\* the properties holding an array of nodes
IsArrayKey(k) == k \in {"alternatives", "elements", "references"}

\* Then(v) for the value v of `value`, which is evaluated once
Bind(value, Then(_)) == CHOOSE result \in {Then(v) : v \in {value}} : TRUE

RECURSIVE StringifyObject(_, _, _)
RECURSIVE StringifyKeys(_, _, _, _)
RECURSIVE StringifyItems(_, _, _, _)

\* the items of an array from position i on; acc is what was written and
\* seen so far.  An item already seen, null or undefined is written as null.
StringifyItems(h, items, i, acc) ==
    IF i > Len(items) THEN acc
    ELSE IF items[i] = Null \/ items[i] \in acc.seen
    THEN StringifyItems(h, items, i + 1,
             [json |-> Append(acc.json, NullValue), seen |-> acc.seen])
    ELSE Bind(StringifyObject(h, items[i], acc.seen \cup {items[i]}),
              LAMBDA r : StringifyItems(h, items, i + 1,
                             [json |-> Append(acc.json, r.json), seen |-> r.seen]))

\* the object-valued property k of object id: a value already seen is
\* dropped with its key
StringifyKey(h, id, k, acc) ==
    LET v == h[id][k] IN
    IF IsArrayKey(k)
    THEN Bind(StringifyItems(h, v, 1, [json |-> <<>>, seen |-> acc.seen]),
              LAMBDA r : [json |-> SetField(acc.json, k, r.json), seen |-> r.seen])
    ELSE IF k = "resolved"
    THEN IF "many" \in DOMAIN v
         THEN Bind(StringifyItems(h, v.many, 1, [json |-> <<>>, seen |-> acc.seen]),
                   LAMBDA r : [json |-> SetField(acc.json, k, Many(r.json)),
                               seen |-> r.seen])
         ELSE IF "one" \in DOMAIN v /\ v.one \notin acc.seen
         THEN Bind(StringifyObject(h, v.one, acc.seen \cup {v.one}),
                   LAMBDA r : [json |-> SetField(acc.json, k, One(r.json)),
                               seen |-> r.seen])
         ELSE acc
    ELSE IF v = Null
    THEN [json |-> SetField(acc.json, k, NullValue), seen |-> acc.seen]
    ELSE IF v \in acc.seen
    THEN acc
    ELSE Bind(StringifyObject(h, v, acc.seen \cup {v}),
              LAMBDA r : [json |-> SetField(acc.json, k, r.json), seen |-> r.seen])

\* the object-valued properties of object id from position i on
StringifyKeys(h, id, i, acc) ==
    IF i > Len(ObjectKeys(h[id])) THEN acc
    ELSE Bind(StringifyKey(h, id, ObjectKeys(h[id])[i], acc),
              LAMBDA a : StringifyKeys(h, id, i + 1, a))

\* an object not seen before: its scalars through the replacer, `parent`
\* skipped, then its object-valued properties
StringifyObject(h, id, seen) ==
    Bind([json |-> [k \in ScalarKeys(h[id]) |-> Replacer(k, h[id][k])],
          seen |-> seen],
         LAMBDA a : StringifyKeys(h, id, 1, a))

JSONstringify(h, node) == StringifyObject(h, node, {node}).json

RECURSIVE JSONparse(_)
RECURSIVE ParseItems(_)

ParseItems(items) ==
    [i \in 1 .. Len(items) |->
        IF items[i] = NullValue THEN NullValue ELSE JSONparse(items[i])]

\* JSON.parse with the reviver: values are revived bottom-up
JSONparse(json) ==
    [k \in DOMAIN json |->
        IF k \in ScalarKeys(json) THEN Reviver(k, json[k])
        ELSE IF IsArrayKey(k) THEN ParseItems(json[k])
        ELSE IF k = "resolved"
        THEN IF "many" \in DOMAIN json[k] THEN Many(ParseItems(json[k].many))
             ELSE One(JSONparse(json[k].one))
        ELSE IF json[k] = NullValue THEN NullValue
        ELSE JSONparse(json[k])]

RECURSIVE Materialize(_, _, _)
RECURSIVE MaterializeKeys(_, _, _, _)
RECURSIVE MaterializeItems(_, _, _, _)

\* the parsed items from position i on become objects whose parent is the
\* owner of the array; acc is the heap and the array so far
MaterializeItems(items, i, acc, parent) ==
    IF i > Len(items) THEN acc
    ELSE IF items[i] = NullValue
    THEN MaterializeItems(items, i + 1,
             [heap |-> acc.heap, ids |-> Append(acc.ids, Null)], parent)
    ELSE Bind(Materialize(acc.heap, items[i], parent),
              LAMBDA r : MaterializeItems(items, i + 1,
                             [heap |-> r.heap, ids |-> Append(acc.ids, r.id)],
                             parent))

\* the heap after the object-valued property k of the parsed object `value`,
\* now object id, is filled in
MaterializeKey(h, id, value, k) ==
    LET v == value[k] IN
    IF IsArrayKey(k)
    THEN Bind(MaterializeItems(v, 1, [heap |-> h, ids |-> <<>>], id),
              LAMBDA r : [r.heap EXCEPT ![id] = SetField(@, k, r.ids)])
    ELSE IF k = "resolved"
    THEN IF "many" \in DOMAIN v
         THEN Bind(MaterializeItems(v.many, 1, [heap |-> h, ids |-> <<>>], id),
                   LAMBDA r : [r.heap EXCEPT ![id] = SetField(@, k, Many(r.ids))])
         ELSE Bind(Materialize(h, v.one, id),
                   LAMBDA r : [r.heap EXCEPT ![id] = SetField(@, k, One(r.id))])
    ELSE IF v = NullValue
    THEN [h EXCEPT ![id] = SetField(@, k, Null)]
    ELSE Bind(Materialize(h, v, id),
              LAMBDA r : [r.heap EXCEPT ![id] = SetField(@, k, r.id)])

\* the object-valued properties of `value` from position i on
MaterializeKeys(h, id, value, i) ==
    IF i > Len(ObjectKeys(value)) THEN h
    ELSE Bind(MaterializeKey(h, id, value, ObjectKeys(value)[i]),
              LAMBDA h1 : MaterializeKeys(h1, id, value, i + 1))

\* the parsed value as a new object, and fixParents on it: an object with a
\* `type` gets `parent`, the objects below it get it as their parent
Materialize(h, value, parent) ==
    LET id == Len(h) + 1
        scalars == [k \in ScalarKeys(value) |-> value[k]]
        object == IF "type" \in DOMAIN value
                  THEN SetField(scalars, "parent", parent)
                  ELSE scalars
    IN Bind(Append(h, object),
            LAMBDA h1 : [heap |-> MaterializeKeys(h1, id, value, 1), id |-> id])

\* cloneAST(node): the heap with the clone in it, and the clone
cloneAST(h, node) ==
    Bind(JSONstringify(h, node),
         LAMBDA clonedStr :
             Bind(JSONparse(clonedStr),
                  LAMBDA cloned : Materialize(h, cloned, Null)))

----------------------------------------------------------------------------
(* cache.ts: generateCacheKey and RegExpParseCache                          *)

\* a boolean in a template literal
BoolString(b) ==
    IF b THEN <<"t", "r", "u", "e">> ELSE <<"f", "a", "l", "s", "e">>

\* a non-negative integer in a template literal
RECURSIVE NumberString(_)
NumberString(n) ==
    LET digit == <<"0", "1", "2", "3", "4", "5", "6", "7", "8", "9">>[(n % 10) + 1]
    IN IF n < 10 THEN <<digit>> ELSE NumberString(n \div 10) \o <<digit>>

\* generateCacheKey with an options object
generateCacheKey(source, start, end, options) ==
    slice(source, start, end)
        \o <<"|">> \o BoolString(options.strict)
        \o <<"|">> \o NumberString(options.ecmaVersion)
        \o <<"|">> \o BoolString(options.unicode)
        \o <<"|">> \o BoolString(options.unicodeSets)

LITERAL_CACHE_SIZE == 500
PATTERN_CACHE_SIZE == 1000
FLAGS_CACHE_SIZE == 200

RegExpParseCache ==
    [ literalCache |-> LRUCache(LITERAL_CACHE_SIZE),
      patternCache |-> LRUCache(PATTERN_CACHE_SIZE),
      flagsCache |-> LRUCache(FLAGS_CACHE_SIZE),
      cacheHits |-> 0,
      cacheMisses |-> 0 ]

\* a lookup: the cache and heap after it, and the clone (Null: undefined)
getCachedLiteral(g, h, time, source, start, end, options) ==
    LET key == generateCacheKey(source, start, end,
                   [strict |-> options.strict, ecmaVersion |-> options.ecmaVersion,
                    unicode |-> FALSE, unicodeSets |-> FALSE])
        r == LRUCache_get(g.literalCache, key, time)
    IN IF r.value # Null
       THEN LET c == cloneAST(h, r.value)
            IN [g |-> [g EXCEPT !.literalCache = r.c, !.cacheHits = @ + 1],
                heap |-> c.heap, value |-> c.id]
       ELSE [g |-> [g EXCEPT !.literalCache = r.c, !.cacheMisses = @ + 1],
             heap |-> h, value |-> Null]

setCachedLiteral(g, time, source, start, end, literal, options) ==
    LET key == generateCacheKey(source, start, end,
                   [strict |-> options.strict, ecmaVersion |-> options.ecmaVersion,
                    unicode |-> FALSE, unicodeSets |-> FALSE])
    IN [g EXCEPT !.literalCache = LRUCache_set(@, key, literal, time)]

getCachedPattern(g, h, time, source, start, end, flags, options) ==
    LET key == generateCacheKey(source, start, end,
                   [strict |-> options.strict, ecmaVersion |-> options.ecmaVersion,
                    unicode |-> flags.unicode, unicodeSets |-> flags.unicodeSets])
        r == LRUCache_get(g.patternCache, key, time)
    IN IF r.value # Null
       THEN LET c == cloneAST(h, r.value)
            IN [g |-> [g EXCEPT !.patternCache = r.c], heap |-> c.heap, value |-> c.id]
       ELSE [g |-> [g EXCEPT !.patternCache = r.c], heap |-> h, value |-> Null]

setCachedPattern(g, time, source, start, end, pattern, flags, options) ==
    LET key == generateCacheKey(source, start, end,
                   [strict |-> options.strict, ecmaVersion |-> options.ecmaVersion,
                    unicode |-> flags.unicode, unicodeSets |-> flags.unicodeSets])
    IN [g EXCEPT !.patternCache = LRUCache_set(@, key, pattern, time)]

getCachedFlags(g, h, time, source, start, end) ==
    LET key == slice(source, start, end)
        r == LRUCache_get(g.flagsCache, key, time)
    IN IF r.value # Null
       THEN LET c == cloneAST(h, r.value)
            IN [g |-> [g EXCEPT !.flagsCache = r.c], heap |-> c.heap, value |-> c.id]
       ELSE [g |-> [g EXCEPT !.flagsCache = r.c], heap |-> h, value |-> Null]

setCachedFlags(g, time, source, start, end, flags) ==
    LET key == slice(source, start, end)
    IN [g EXCEPT !.flagsCache = LRUCache_set(@, key, flags, time)]

\* RegExpParseCache.clear
RegExpParseCache_clear(g) ==
    [g EXCEPT !.literalCache.cache = <<>>, !.patternCache.cache = <<>>,
              !.flagsCache.cache = <<>>, !.cacheHits = 0, !.cacheMisses = 0]

----------------------------------------------------------------------------
(* fast-paths.ts *)

\* the characters U+0020 .. U+007E in code order (U+0060 by its name)
ASCII ==
    <<" ", "!", "\"", "#", "$", "%", "&", "'", "(", ")", "*", "+", ",", "-", ".", "/",
      "0", "1", "2", "3", "4", "5", "6", "7", "8", "9", ":", ";", "<", "=", ">", "?",
      "@", "A", "B", "C", "D", "E", "F", "G", "H", "I", "J", "K", "L", "M", "N", "O",
      "P", "Q", "R", "S", "T", "U", "V", "W", "X", "Y", "Z", "[", "\\", "]", "^", "_",
      "GRAVE", "a", "b", "c", "d", "e", "f", "g", "h", "i", "j", "k", "l", "m", "n", "o",
      "p", "q", "r", "s", "t", "u", "v", "w", "x", "y", "z", "{", "|", "}", "~">>

\* String.prototype.charCodeAt on a one-character string
charCodeAt(c) == 31 + CHOOSE i \in 1 .. Len(ASCII) : ASCII[i] = c

includes(s, c) == \E i \in 1 .. Len(s) : s[i] = c

\* the class [a-zA-Z0-9_]
IsWordChar(c) ==
    LET code == charCodeAt(c) IN
    \/ code \in charCodeAt("a") .. charCodeAt("z")
    \/ code \in charCodeAt("A") .. charCodeAt("Z")
    \/ code \in charCodeAt("0") .. charCodeAt("9")
    \/ c = "_"

isSimpleLiteral(pattern) ==
    Len(pattern) > 0 /\ \A i \in 1 .. Len(pattern) : IsWordChar(pattern[i])

\* createSimpleLiteralAST counting the offsets of the characters from the
\* start of the slice
createSimpleLiteralAST_relative(h, pattern, start, end) ==
    LET n == Len(pattern)
        alternative == Len(h) + n + 1
        result == Len(h) + n + 2
        characters ==
            [i \in 1 .. n |->
                [ type |-> "Character", parent |-> alternative,
                  start |-> i - 1, end |-> i,
                  raw |-> Str(<<pattern[i]>>), value |-> charCodeAt(pattern[i]) ]]
    IN [heap |-> h \o characters \o
                 << [ type |-> "Alternative", parent |-> result, start |-> start,
                      end |-> end, raw |-> Str(pattern),
                      elements |-> [i \in 1 .. n |-> Len(h) + i] ],
                    [ type |-> "Pattern", parent |-> Null, start |-> start,
                      end |-> end, raw |-> Str(pattern),
                      alternatives |-> <<alternative>> ] >>,
        value |-> result]

\* the heap with the Pattern built for a simple literal, and the Pattern
createSimpleLiteralAST(h, pattern, start, end) ==
    LET n == Len(pattern)
        alternative == Len(h) + n + 1
        result == Len(h) + n + 2
        characters ==
            [i \in 1 .. n |->
                [ type |-> "Character", parent |-> alternative,
                  start |-> start + i - 1, end |-> start + i,
                  raw |-> Str(<<pattern[i]>>), value |-> charCodeAt(pattern[i]) ]]
    IN [heap |-> h \o characters \o
                 << [ type |-> "Alternative", parent |-> result, start |-> start,
                      end |-> end, raw |-> Str(pattern),
                      elements |-> [i \in 1 .. n |-> Len(h) + i] ],
                    [ type |-> "Pattern", parent |-> Null, start |-> start,
                      end |-> end, raw |-> Str(pattern),
                      alternatives |-> <<alternative>> ] >>,
        value |-> result]

tryFastPath(h, pattern, start, end) ==
    LET patternStr == slice(pattern, start, end) IN
    IF isSimpleLiteral(patternStr)
    THEN createSimpleLiteralAST(h, patternStr, start, end)
    ELSE [heap |-> h, value |-> Null]

getPatternComplexity(pattern) ==
    (IF includes(pattern, "(") THEN 10 ELSE 0)
    + (IF includes(pattern, "[") THEN 5 ELSE 0)
    + (IF includes(pattern, "{") THEN 5 ELSE 0)
    + (IF includes(pattern, "\\") THEN 3 ELSE 0)
    + (IF includes(pattern, "|") THEN 2 ELSE 0)
    + (IF includes(pattern, "*") \/ includes(pattern, "+") THEN 2 ELSE 0)
    + (IF includes(pattern, "?") THEN 1 ELSE 0)

shouldCache(pattern) ==
    getPatternComplexity(pattern) >= 5 \/ Len(pattern) > 10

----------------------------------------------------------------------------
(* RegExpValidator, for the part of the grammar made of pattern characters, *)
(* `^`, capturing groups `( )`, `|`, the quantifier `*` / `*?`, numeric     *)
(* backreferences and identity escapes.  V is the validator: the machine S  *)
(* it reports to, the reader's index and end, the mode, the pre-scanned     *)
(* number of capturing groups, and whether the last consume step ate        *)
(* anything.                                                                *)

Validator(S, start, end, unicodeMode) ==
    [S |-> S, index |-> start, end |-> Min(end, Len(S.source)),
     unicodeMode |-> unicodeMode, numCapturingParens |-> 0, ate |-> FALSE]

Raise(V) == [V EXCEPT !.S = Throw(@), !.ate = FALSE]

\* the character under the reader, "" at the end of the input
currentCodePoint(V) ==
    IF V.index < V.end THEN V.S.source[V.index + 1] ELSE ""

nextCodePoint(V) ==
    IF V.index + 1 < V.end THEN V.S.source[V.index + 2] ELSE ""

SyntaxCharacter == {"^", "$", "\\", ".", "*", "+", "?", "(", ")", "[", "]", "{", "}", "|"}

DecimalDigit == {"0", "1", "2", "3", "4", "5", "6", "7", "8", "9"}

\* the pre-scan: the unescaped `(` between positions i and end
RECURSIVE countCapturingParens(_, _, _)
countCapturingParens(source, i, end) ==
    IF i >= end THEN 0
    ELSE IF source[i + 1] = "\\" THEN countCapturingParens(source, i + 2, end)
    ELSE (IF source[i + 1] = "(" THEN 1 ELSE 0)
         + countCapturingParens(source, i + 1, end)

\* eatDecimalDigits: the reader after the run of digits, and its value
RECURSIVE eatDecimalDigits(_, _)
eatDecimalDigits(V, value) ==
    IF currentCodePoint(V) \in DecimalDigit
    THEN eatDecimalDigits([V EXCEPT !.index = @ + 1],
                          10 * value + charCodeAt(currentCodePoint(V)) - charCodeAt("0"))
    ELSE [V |-> V, value |-> value]

\* `*` or `*?` after an atom
consumeOptionalQuantifier(V) ==
    IF currentCodePoint(V) # "*" THEN V
    ELSE LET start == V.index
             greedy == nextCodePoint(V) # "?"
             after == IF greedy THEN start + 1 ELSE start + 2
         IN [V EXCEPT !.S = onQuantifier(V.S, start, after, 0, Infinity, greedy),
                      !.index = after]

\* `\` followed by a group number, or by a character standing for itself
consumeAtomEscape(V) ==
    LET start == V.index
        escaped == nextCodePoint(V)
    IN IF escaped = "" THEN Raise(V)
       ELSE IF escaped \in DecimalDigit \ {"0"}
       THEN Bind(eatDecimalDigits([V EXCEPT !.index = start + 1], 0),
                 LAMBDA r :
                     IF r.value <= V.numCapturingParens
                     THEN [r.V EXCEPT
                              !.S = onBackreference(V.S, start, r.V.index, Num(r.value)),
                              !.ate = TRUE]
                     ELSE Raise(V))
       ELSE IF escaped \in SyntaxCharacter \cup {"/"}
                  \/ (~V.S.strict /\ ~V.unicodeMode)
       THEN [V EXCEPT !.S = onCharacter(V.S, start, start + 2, charCodeAt(escaped)),
                      !.index = start + 2, !.ate = TRUE]
       ELSE Raise(V)

RECURSIVE consumeDisjunction(_)
RECURSIVE consumeAlternatives(_)
RECURSIVE consumeTerms(_)
RECURSIVE consumeTerm(_)
RECURSIVE consumeAtom(_)

\* a capturing group, an escape or a pattern character; `ate` tells whether
\* there was one
consumeAtom(V) ==
    LET start == V.index
        cp == currentCodePoint(V)
    IN IF cp = "("
       THEN Bind([V EXCEPT !.S = onCapturingGroupEnter(V.S, start, NullValue),
                           !.index = start + 1],
                 LAMBDA V1 :
                     IF V1.S.threw THEN V1
                     ELSE Bind(consumeDisjunction(V1),
                               LAMBDA V2 :
                                   IF V2.S.threw THEN V2
                                   ELSE IF currentCodePoint(V2) # ")" THEN Raise(V2)
                                   ELSE [V2 EXCEPT
                                           !.S = onCapturingGroupLeave(
                                                     V2.S, start, V2.index + 1),
                                           !.index = V2.index + 1,
                                           !.ate = TRUE]))
       ELSE IF cp = "\\" THEN consumeAtomEscape(V)
       ELSE IF cp \in SyntaxCharacter THEN [V EXCEPT !.ate = FALSE]
       ELSE [V EXCEPT !.S = onCharacter(V.S, start, start + 1, charCodeAt(cp)),
                      !.index = start + 1, !.ate = TRUE]

\* one term: an assertion, or an atom and its optional quantifier
consumeTerm(V) ==
    LET start == V.index
        cp == currentCodePoint(V)
    IN IF cp = "" THEN [V EXCEPT !.ate = FALSE]
       ELSE IF cp = "^"
       THEN [V EXCEPT !.S = onEdgeAssertion(V.S, start, start + 1, "start"),
                      !.index = start + 1, !.ate = TRUE]
       ELSE Bind(consumeAtom(V),
                 LAMBDA V1 :
                     IF V1.S.threw \/ ~V1.ate THEN V1
                     ELSE consumeOptionalQuantifier(V1))

\* the terms of one alternative
consumeTerms(V) ==
    Bind(consumeTerm(V),
         LAMBDA V1 : IF V1.S.threw \/ ~V1.ate THEN V1 ELSE consumeTerms(V1))

\* the alternative at the reader: its Enter event, its terms, its Leave event
consumeAlternative(V) ==
    Bind([V EXCEPT !.S = onAlternativeEnter(V.S, V.index)],
         LAMBDA V1 :
             IF V1.S.threw THEN V1
             ELSE Bind(consumeTerms(V1),
                       LAMBDA V2 :
                           IF V2.S.threw THEN V2
                           ELSE [V2 EXCEPT
                                   !.S = onAlternativeLeave(V2.S, V.index, V2.index)]))

\* an alternative, and the alternatives after each `|`
consumeAlternatives(V) ==
    Bind(consumeAlternative(V),
         LAMBDA V1 :
             IF V1.S.threw \/ currentCodePoint(V1) # "|" THEN V1
             ELSE Bind([V1 EXCEPT !.index = @ + 1],
                       LAMBDA V2 : consumeAlternatives(V2)))

\* a quantifier left over after the alternatives has nothing to repeat
consumeDisjunction(V) ==
    Bind(consumeAlternatives(V),
         LAMBDA V1 :
             IF V1.S.threw THEN V1
             ELSE IF currentCodePoint(V1) = "*" THEN Raise(V1)
             ELSE V1)

\* validatePattern: the machine after the events of source[start .. end)
validatePattern(S, start, end, flags) ==
    Bind([Validator(S, start, end, flags.unicode \/ flags.unicodeSets) EXCEPT
             !.S = onPatternEnter(S, start),
             !.numCapturingParens =
                 countCapturingParens(S.source, start, Min(end, Len(S.source)))],
         LAMBDA V0 :
             Bind(consumeDisjunction(V0),
                  LAMBDA V1 :
                      IF V1.S.threw THEN V1.S
                      ELSE IF V1.index # V1.end THEN Throw(V1.S)
                      ELSE onPatternLeave(V1.S, start, V1.index)))

FlagCharacters == <<"g", "i", "m", "u", "s", "y", "d", "v">>

FlagNames == <<"global", "ignoreCase", "multiline", "unicode", "dotAll", "sticky",
               "hasIndices", "unicodeSets">>

\* the first edition that has the flag at position i of FlagCharacters
FlagEdition == <<2015, 2015, 2015, 2015, 2018, 2015, 2022, 2024>>

validateFlags(S, start, end) ==
    LET text == slice(S.source, start, end)
        Count(c) == Cardinality({i \in 1 .. Len(text) : text[i] = c})
        Known(c) == \E i \in 1 .. Len(FlagCharacters) :
                        FlagCharacters[i] = c /\ S.ecmaVersion >= FlagEdition[i]
        Position_(name) == CHOOSE i \in 1 .. Len(FlagNames) : FlagNames[i] = name
        flags == [name \in {FlagNames[i] : i \in 1 .. Len(FlagNames)} |->
                     includes(text, FlagCharacters[Position_(name)])]
    IN IF \E i \in 1 .. Len(text) : Count(text[i]) > 1 \/ ~Known(text[i])
       THEN Throw(S)
       ELSE IF flags.unicode /\ flags.unicodeSets
       THEN Throw(S)
       ELSE onRegExpFlags(S, start, end, flags)

\* eatRegExpBody: the position of the `/` closing the body that starts at
\* i, or -1 when the body is not closed
RECURSIVE eatRegExpBody(_, _, _)
eatRegExpBody(source, i, end) ==
    IF i >= end THEN -1
    ELSE IF source[i + 1] = "/" THEN i
    ELSE IF source[i + 1] = "\\"
    THEN (IF i + 1 >= end THEN -1 ELSE eatRegExpBody(source, i + 2, end))
    ELSE eatRegExpBody(source, i + 1, end)

validateLiteral(S, start, end) ==
    LET limit == Min(end, Len(S.source))
        close == IF start < limit /\ S.source[start + 1] = "/"
                 THEN eatRegExpBody(S.source, start + 1, limit)
                 ELSE -1
        flagStart == close + 1
    IN IF close <= start + 1 THEN Throw(S)     \* no `/`, no body, or body not closed
       ELSE Bind(validateFlags(S, flagStart, end),
                 LAMBDA S1 :
                     IF S1.threw THEN S1
                     ELSE validatePattern(S1, start + 1, flagStart - 1,
                              [unicode |-> S1.heap[S1._flags].unicode,
                               unicodeSets |-> S1.heap[S1._flags].unicodeSets]))

----------------------------------------------------------------------------
(* RegExpParser.  A call takes the machine S of the parser, the cache g and *)
(* the time, and gives the machine and the cache after it, the object it    *)
(* returned (Null when it threw) and whether the cache served it.           *)

parseLiteral(S, g, time, source, start, end) ==
    LET options == [strict |-> S.strict, ecmaVersion |-> S.ecmaVersion] IN
    Bind(getCachedLiteral(g, S.heap, time, source, start, end, options),
         LAMBDA cached :
    IF cached.value # Null
    THEN [S |-> [S EXCEPT !.heap = cached.heap], g |-> cached.g,
          value |-> cached.value, hit |-> TRUE]
    ELSE
    Bind(validateLiteral([S EXCEPT !.source = source], start, end),
         LAMBDA S1 :
    Bind(IF S1.threw THEN S1 ELSE getPattern(S1),
         LAMBDA S2 :
    Bind(IF S2.threw THEN S2 ELSE getFlags(S2),
         LAMBDA S3 :
    LET literal == NewId(S3)
        S4 == [S3 EXCEPT !.heap =
                 Append([@ EXCEPT ![S3._node].parent = literal,
                                  ![S3._flags].parent = literal],
                     [ type |-> "RegExpLiteral", parent |-> Null,
                       start |-> start, end |-> end, raw |-> Str(source),
                       pattern |-> S3._node, flags |-> S3._flags ])]
    IN IF S3.threw
       THEN [S |-> S3, g |-> cached.g, value |-> Null, hit |-> FALSE]
       ELSE [S |-> S4,
             g |-> IF shouldCache(slice(source, start, end))
                   THEN setCachedLiteral(cached.g, time, source, start, end,
                                         literal, options)
                   ELSE cached.g,
             value |-> literal, hit |-> FALSE]))))

\* parseFlags storing what the state holds also when validation threw
parseFlags_eager(S, g, time, source, start, end) ==
    Bind(getCachedFlags(g, S.heap, time, source, start, end),
         LAMBDA cached :
    IF cached.value # Null
    THEN [S |-> [S EXCEPT !.heap = cached.heap], g |-> cached.g,
          value |-> cached.value, hit |-> TRUE]
    ELSE
    Bind(validateFlags([S EXCEPT !.source = source], start, end),
         LAMBDA S1 :
    Bind(IF S1.threw THEN S1 ELSE getFlags(S1),
         LAMBDA S2 :
    [S |-> S2,
     g |-> setCachedFlags(cached.g, time, source, start, end, S2._flags),
     value |-> IF S2.threw THEN Null ELSE S2._flags, hit |-> FALSE])))

parseFlags(S, g, time, source, start, end) ==
    Bind(getCachedFlags(g, S.heap, time, source, start, end),
         LAMBDA cached :
    IF cached.value # Null
    THEN [S |-> [S EXCEPT !.heap = cached.heap], g |-> cached.g,
          value |-> cached.value, hit |-> TRUE]
    ELSE
    Bind(validateFlags([S EXCEPT !.source = source], start, end),
         LAMBDA S1 :
    Bind(IF S1.threw THEN S1 ELSE getFlags(S1),
         LAMBDA S2 :
    IF S2.threw
    THEN [S |-> S2, g |-> cached.g, value |-> Null, hit |-> FALSE]
    ELSE [S |-> S2,
          g |-> setCachedFlags(cached.g, time, source, start, end, S2._flags),
          value |-> S2._flags, hit |-> FALSE])))

\* parsePattern with a flags object
parsePattern(S, g, time, source, start, end, flags) ==
    LET options == [strict |-> S.strict, ecmaVersion |-> S.ecmaVersion] IN
    Bind(tryFastPath(S.heap, source, start, end),
         LAMBDA fastPath :
    IF fastPath.value # Null
    THEN [S |-> [S EXCEPT !.heap = fastPath.heap], g |-> g,
          value |-> fastPath.value, hit |-> FALSE]
    ELSE
    Bind(getCachedPattern(g, S.heap, time, source, start, end, flags, options),
         LAMBDA cached :
    IF cached.value # Null
    THEN [S |-> [S EXCEPT !.heap = cached.heap], g |-> cached.g,
          value |-> cached.value, hit |-> TRUE]
    ELSE
    Bind(validatePattern([S EXCEPT !.source = source], start, end, flags),
         LAMBDA S1 :
    Bind(IF S1.threw THEN S1 ELSE getPattern(S1),
         LAMBDA S2 :
    IF S2.threw
    THEN [S |-> S2, g |-> cached.g, value |-> Null, hit |-> FALSE]
    ELSE [S |-> S2,
          g |-> IF shouldCache(slice(source, start, end))
                THEN setCachedPattern(cached.g, time, source, start, end,
                                      S2._node, flags, options)
                ELSE cached.g,
          value |-> S2._node, hit |-> FALSE]))))

----------------------------------------------------------------------------
(* Group specifiers: the capture names of a pattern and their scopes.      *)

GroupSpecifiersAsES2018 == [groupName |-> {}]

ES2018_clear(g) == [g EXCEPT !.groupName = {}]

ES2018_hasInPattern(g, name) == name \in g.groupName

ES2018_hasInScope(g, name) == ES2018_hasInPattern(g, name)

ES2018_addToScope(g, name) == [g EXCEPT !.groupName = @ \cup {name}]

ES2018_enterDisjunction(g) == g

\* enterAlternative opening a scope of its own
ES2018_enterAlternative_scoped(g) == [g EXCEPT !.groupName = {}]

ES2018_enterAlternative(g) == g

ES2018_leaveDisjunction(g) == g

\* new BranchID(parent, base) in the list bs of the BranchID objects made so
\* far; an object is its position in the list, base = Null stands for null
BranchID(bs, parent, base) ==
    Append(bs, [parent |-> parent,
                base |-> IF base = Null THEN Len(bs) + 1 ELSE base])

\* separatedFrom without the walk up the parents of `other`
RECURSIVE separatedFrom_own(_, _, _)
separatedFrom_own(bs, this, other) ==
    IF bs[this].base = bs[other].base /\ this # other THEN TRUE
    ELSE IF bs[this].parent # Null
         THEN separatedFrom_own(bs, bs[this].parent, other)
         ELSE FALSE

\* separatedFrom without the test that the two branches are distinct
RECURSIVE separatedFrom_same(_, _, _)
separatedFrom_same(bs, this, other) ==
    IF bs[this].base = bs[other].base THEN TRUE
    ELSE IF bs[other].parent # Null /\ separatedFrom_same(bs, this, bs[other].parent)
    THEN TRUE
    ELSE IF bs[this].parent # Null
         THEN separatedFrom_same(bs, bs[this].parent, other)
         ELSE FALSE

RECURSIVE separatedFrom(_, _, _)
separatedFrom(bs, this, other) ==
    IF bs[this].base = bs[other].base /\ this # other THEN TRUE
    ELSE IF bs[other].parent # Null /\ separatedFrom(bs, this, bs[other].parent)
    THEN TRUE
    ELSE IF bs[this].parent # Null
         THEN separatedFrom(bs, bs[this].parent, other)
         ELSE FALSE

child(bs, this) == BranchID(bs, this, Null)

\* sibling making the new branch a branch below this one
sibling_below(bs, this) == BranchID(bs, this, bs[this].base)

sibling(bs, this) == BranchID(bs, bs[this].parent, bs[this].base)

\* `branches` lists the BranchID objects, `groupNames` maps the names it
\* has as keys to arrays of BranchID
GroupSpecifiersAsES2025 ==
    [ branches |-> BranchID(<<>>, Null, Null),
      branchID |-> 1,
      groupNames |-> [name \in {} |-> <<>>] ]

\* the BranchID objects of before are no longer referred to
ES2025_clear(g) == GroupSpecifiersAsES2025

ES2025_enterDisjunction(g) ==
    [g EXCEPT !.branches = child(@, g.branchID),
              !.branchID = Len(g.branches) + 1]

ES2025_enterAlternative(g, i) ==
    IF i = 0 THEN g
    ELSE [g EXCEPT !.branches = sibling(@, g.branchID),
                   !.branchID = Len(g.branches) + 1]

ES2025_leaveDisjunction(g) ==
    [g EXCEPT !.branchID = g.branches[g.branchID].parent]

ES2025_hasInPattern(g, name) == name \in DOMAIN g.groupNames

\* hasInScope looking at the last occurrence of the name only
ES2025_hasInScope_last(g, name) ==
    IF name \notin DOMAIN g.groupNames THEN FALSE
    ELSE LET branches == g.groupNames[name]
         IN ~separatedFrom(g.branches, branches[Len(branches)], g.branchID)

ES2025_hasInScope(g, name) ==
    IF name \notin DOMAIN g.groupNames THEN FALSE
    ELSE LET branches == g.groupNames[name]
         IN \E k \in 1 .. Len(branches) :
                ~separatedFrom(g.branches, branches[k], g.branchID)

ES2025_addToScope(g, name) ==
    IF name \in DOMAIN g.groupNames
    THEN [g EXCEPT !.groupNames[name] = Append(@, g.branchID)]
    ELSE [g EXCEPT !.groupNames = SetField(@, name, <<g.branchID>>)]

\* the validators before a pattern: `nesting` lists the open disjunctions,
\* outermost first, each with the index of the alternative being read
\* (-1 before its first alternative) and the branch that was current
\* before its enterDisjunction; `entered` counts the disjunctions
\* entered; `declarations` lists the names added, each with the nesting
\* it was added in
Outside == [nesting |-> <<>>, entered |-> 0, declarations |-> <<>>]

----------------------------------------------------------------------------
(* part_001: OptimizedRegExpVisitor.  A handler is named by the type and    *)
(* the phase it is for and by the spelling of its property (`lower`: the    *)
(* first letter of the type in lower case); `log` lists the handler calls,  *)
(* each with the node it was given.                                         *)

NodeTypes ==
    {"Alternative", "Assertion", "Backreference", "CapturingGroup", "Character",
     "CharacterClass", "CharacterClassRange", "CharacterSet", "ClassIntersection",
     "ClassStringDisjunction", "ClassSubtraction", "ExpressionCharacterClass",
     "Flags", "Group", "Modifiers", "ModifierFlags", "Pattern", "Quantifier",
     "RegExpLiteral", "StringAlternative"}

\* the handlers a caller gives: Enter and Leave of every type but Flags
Handlers ==
    {[type |-> t, phase |-> p, lower |-> FALSE] :
        t \in NodeTypes \ {"Flags"}, p \in {"Enter", "Leave"}}

OptimizedRegExpVisitor(handlers) ==
    [ _handlers |-> handlers,
      handlerCache |-> [key \in {} |-> NullValue],
      log |-> <<>>,
      threw |-> FALSE ]

\* getHandler: the visitor after the lookup, and the handler (NullValue: null)
getHandler(V, type, phase) ==
    LET key == <<type, phase>> IN
    IF key \in DOMAIN V.handlerCache
    THEN [V |-> V, handler |-> V.handlerCache[key]]
    ELSE LET upper == [type |-> type, phase |-> phase, lower |-> FALSE]
             lower == [type |-> type, phase |-> phase, lower |-> TRUE]
             handler == IF upper \in V._handlers THEN upper
                        ELSE IF lower \in V._handlers THEN lower
                        ELSE NullValue
         IN [V |-> [V EXCEPT !.handlerCache = SetField(@, key, handler)],
             handler |-> handler]

\* the value of property k of node n (Null: null or undefined)
Property(n, k) == IF k \in DOMAIN n THEN n[k] ELSE Null

\* the array under property k; reading the length of undefined throws, as
\* the visit of a null does
ArrayOf(n, k) == IF k \in DOMAIN n THEN n[k] ELSE <<Null>>

\* what visit hands to its recursive calls, in their order
Visited(n) ==
    IF n.type \in {"Alternative", "CharacterClass", "StringAlternative"}
    THEN ArrayOf(n, "elements")
    ELSE IF n.type = "Assertion"
    THEN IF n.kind \in {"lookahead", "lookbehind"}
         THEN ArrayOf(n, "alternatives") ELSE <<>>
    ELSE IF n.type \in {"CapturingGroup", "ClassStringDisjunction", "Pattern"}
    THEN ArrayOf(n, "alternatives")
    ELSE IF n.type = "CharacterClassRange"
    THEN <<Property(n, "min"), Property(n, "max")>>
    ELSE IF n.type \in {"ClassIntersection", "ClassSubtraction"}
    THEN <<Property(n, "left"), Property(n, "right")>>
    ELSE IF n.type = "ExpressionCharacterClass"
    THEN <<Property(n, "expression")>>
    ELSE IF n.type = "Group"
    THEN (IF Property(n, "modifiers") # Null THEN <<n.modifiers>> ELSE <<>>)
             \o ArrayOf(n, "alternatives")
    ELSE IF n.type = "Modifiers"
    THEN (IF Property(n, "add") # Null THEN <<n.add>> ELSE <<>>)
             \o (IF Property(n, "remove") # Null THEN <<n.remove>> ELSE <<>>)
    ELSE IF n.type = "Quantifier"
    THEN <<Property(n, "element")>>
    ELSE IF n.type = "RegExpLiteral"
    THEN <<Property(n, "pattern"), Property(n, "flags")>>
    ELSE <<>>       \* the leaves

Call(V, handler, node) ==
    IF handler = NullValue THEN V
    ELSE [V EXCEPT !.log = Append(@, [handler |-> handler, node |-> node])]

RECURSIVE visit(_, _, _)
RECURSIVE visitEach(_, _, _, _)
\* visit(node): reading the type of null throws a TypeError
visit(V, h, node) ==
    IF node = Null THEN [V EXCEPT !.threw = TRUE]
    ELSE Bind(getHandler(V, h[node].type, "Enter"),
         LAMBDA onEnter :
         Bind(getHandler(onEnter.V, h[node].type, "Leave"),
         LAMBDA onLeave :
         Bind(visitEach(Call(onLeave.V, onEnter.handler, node), h,
                        Visited(h[node]), 1),
         LAMBDA V1 :
             IF V1.threw THEN V1 ELSE Call(V1, onLeave.handler, node))))

\* the recursive calls of one visit, from the i-th on
visitEach(V, h, nodes, i) ==
    IF V.threw \/ i > Len(nodes) THEN V
    ELSE Bind(visit(V, h, nodes[i]), LAMBDA V1 : visitEach(V1, h, nodes, i + 1))

----------------------------------------------------------------------------
(* part_000: ObjectPool.  `pool` lists the pooled objects, the last one     *)
(* being the next to be handed out; an object is its number.                *)

(* `objects` lists the objects the factory made.  The pool is the          *)
(* alternativePool of ASTNodePools: its factory makes an object with an     *)
(* empty `elements`, its reset empties `elements`.                          *)

ObjectPool(maxSize) == [pool |-> <<>>, maxSize |-> maxSize]

factory == [elements |-> <<>>]

resetElementsNode(node) == [node EXCEPT !.elements = <<>>]

\* acquire: the pool and the objects after the call, and the object returned
acquire(P, objects) ==
    IF P.pool # <<>>
    THEN [p |-> [P EXCEPT !.pool = SubSeq(@, 1, Len(@) - 1)],
          objects |-> objects,
          value |-> P.pool[Len(P.pool)]]
    ELSE [p |-> P, objects |-> Append(objects, factory),
          value |-> Len(objects) + 1]

release(P, objects, obj) ==
    IF Len(P.pool) < P.maxSize
    THEN [p |-> [P EXCEPT !.pool = Append(@, obj)],
          objects |-> [objects EXCEPT ![obj] = resetElementsNode(@)]]
    ELSE [p |-> P, objects |-> objects]

RECURSIVE releaseAll(_, _, _)
releaseAll(P, objects, objs) ==
    IF objs = <<>> THEN [p |-> P, objects |-> objects]
    ELSE Bind(release(P, objects, Head(objs)),
              LAMBDA r : releaseAll(r.p, r.objects, Tail(objs)))

ObjectPool_clear(P) == [P EXCEPT !.pool = <<>>]

\* the capacity of the ObjectPool that is driven on its own
SmallPool == 2

----------------------------------------------------------------------------
(* Parser instances.  Instance 1 has the default options, instance 2 an    *)
(* older edition.                                                          *)

Parsers == {1, 2}

OptionsOf(p) ==
    IF p = 1 THEN [strict |-> FALSE, ecmaVersion |-> 2025]
    ELSE [strict |-> FALSE, ecmaVersion |-> 2021]

\* the machine of parser p: its state fields together with the heap
Machine(p) == _state[p] @@ [heap |-> heap, threw |-> FALSE]

FieldsOf(S) == [k \in DOMAIN S \ {"heap", "threw"} |-> S[k]]

Init ==
    /\ heap = InitialHeap
    /\ _state = [p \in Parsers |-> RegExpParserState(OptionsOf(p))]
    /\ index = [p \in Parsers |-> 0]
    /\ open = [p \in Parsers |-> FALSE]
    /\ threw = FALSE
    /\ globalParseCache = RegExpParseCache
    /\ now = 0
    /\ calls = <<>>
    /\ groupSpecifiers2018 = GroupSpecifiersAsES2018
    /\ groupSpecifiers2025 = GroupSpecifiersAsES2025
    /\ walk = Outside
    /\ lru = [c |-> LRUCache(SmallSize), used |-> <<>>, accesses |-> 0,
              last |-> [op |-> "new", key |-> "", found |-> FALSE, size |-> 0]]
    /\ visitor = [v |-> OptimizedRegExpVisitor(Handlers), root |-> Null, visits |-> 0]
    /\ pool = [p |-> ObjectPool(SmallPool), objects |-> <<>>, holders |-> <<>>,
               calls |-> 0]

----------------------------------------------------------------------------
(* The assembler under an arbitrary stream of builder events.  The caller  *)
(* (the validator) passes its reader position as the offsets: an event     *)
(* that creates an element moves the position by one, a Leave event ends   *)
(* its node at the position.                                               *)

\* the source the events refer to
AsmSource == <<"a", "b", "c">>

AsmParser == 1

\* the source the events of a character class refer to
ClassSource == <<"[", "a", "b", "c">>

\* the source the events of nested groups and classes refer to
TreeSource == <<"a", "b">>

\* the source the events of class set expressions refer to
ClassSetSource == <<"[", "a", "b", "]">>

\* the source the events of one pattern after another refer to
ReuseSource == <<"(", "(", "1">>

\* events follow the assignment of the source (parser.ts:895, 940, 1022)
Started ==
    _state[AsmParser].source \in
        {AsmSource, ClassSource, TreeSource, ClassSetSource, ReuseSource}

\* the events of a pattern lie between its onPatternEnter and onPatternLeave
InPattern == Started /\ open[AsmParser]

CanAllocate ==
    Len(heap) < Len(InitialHeap)
                  + (IF _state[AsmParser].source = ClassSource THEN MaxClassNodes
                     ELSE IF _state[AsmParser].source = ClassSetSource THEN MaxSetNodes
                     ELSE IF _state[AsmParser].source = ReuseSource THEN MaxReuseNodes
                     ELSE MaxNodes)

CanConsume == index[AsmParser] < Len(_state[AsmParser].source)

\* the event ended in machine S with the reader at i; `o`: a pattern is open
Emits(S, i, o) ==
    /\ heap' = S.heap
    /\ _state' = [_state EXCEPT ![AsmParser] = FieldsOf(S)]
    /\ index' = [index EXCEPT ![AsmParser] = i]
    /\ open' = [open EXCEPT ![AsmParser] = o]
    /\ threw' = S.threw
    /\ UNCHANGED <<globalParseCache, now, calls, components>>

\* the start offset the validator remembered for the node it is leaving
LeaveStart ==
    LET n == heap[_state[AsmParser]._node]
    IN IF "start" \in DOMAIN n THEN n.start ELSE 0

\* parser.ts:895, and the reader reset of the validator
SetSource ==
    /\ _state[AsmParser].source # AsmSource
    /\ Emits([Machine(AsmParser) EXCEPT !.source = AsmSource], 0, FALSE)

OnPatternEnter ==
    /\ Started /\ CanAllocate
    /\ LET i == index[AsmParser] IN
       Emits(onPatternEnter(Machine(AsmParser), i), i, TRUE)

OnPatternLeave ==
    /\ InPattern
    /\ LET i == index[AsmParser] IN
       Emits(onPatternLeave(Machine(AsmParser), LeaveStart, i), i, FALSE)

OnAlternativeEnter ==
    /\ InPattern /\ CanAllocate
    /\ LET i == index[AsmParser] IN
       Emits(onAlternativeEnter(Machine(AsmParser), i), i, TRUE)

OnAlternativeLeave ==
    /\ InPattern
    /\ LET i == index[AsmParser] IN
       Emits(onAlternativeLeave(Machine(AsmParser), LeaveStart, i), i, TRUE)

GroupNames == {NullValue, Str(<<"n">>)}

OnCapturingGroupEnter ==
    /\ InPattern /\ CanAllocate /\ CanConsume
    /\ \E name \in GroupNames :
         LET i == index[AsmParser] IN
         Emits(onCapturingGroupEnter(Machine(AsmParser), i, name), i + 1, TRUE)

OnCapturingGroupLeave ==
    /\ InPattern
    /\ LET i == index[AsmParser] IN
       Emits(onCapturingGroupLeave(Machine(AsmParser), LeaveStart, i), i, TRUE)

Quantities == { [min |-> 0, max |-> Infinity, greedy |-> TRUE],
                [min |-> 1, max |-> Num(1), greedy |-> FALSE] }

OnQuantifier ==
    /\ InPattern /\ CanAllocate /\ CanConsume
    /\ \E q \in Quantities :
         LET i == index[AsmParser] IN
         Emits(onQuantifier(Machine(AsmParser), i, i + 1, q.min, q.max, q.greedy),
               i + 1, TRUE)

OnLookaroundAssertionEnter ==
    /\ InPattern /\ CanAllocate /\ CanConsume
    /\ \E kind \in {"lookahead", "lookbehind"} :
         LET i == index[AsmParser] IN
         Emits(onLookaroundAssertionEnter(Machine(AsmParser), i, kind, FALSE),
               i + 1, TRUE)

OnLookaroundAssertionLeave ==
    /\ InPattern
    /\ LET i == index[AsmParser] IN
       Emits(onLookaroundAssertionLeave(Machine(AsmParser), LeaveStart, i), i, TRUE)

OnEdgeAssertion ==
    /\ InPattern /\ CanAllocate /\ CanConsume
    /\ LET i == index[AsmParser] IN
       Emits(onEdgeAssertion(Machine(AsmParser), i, i + 1, "start"), i + 1, TRUE)

OnCharacter ==
    /\ InPattern /\ CanAllocate /\ CanConsume
    /\ LET i == index[AsmParser] IN
       Emits(onCharacter(Machine(AsmParser), i, i + 1, 97), i + 1, TRUE)

References == {Num(1), Num(2), Str(<<"n">>)}

OnBackreference ==
    /\ InPattern /\ CanAllocate /\ CanConsume
    /\ \E ref \in References :
         LET i == index[AsmParser] IN
         Emits(onBackreference(Machine(AsmParser), i, i + 1, ref), i + 1, TRUE)

\* the events that create and resolve backreferences
NextRefs ==
    \/ SetSource
    \/ OnPatternEnter
    \/ OnPatternLeave
    \/ OnAlternativeEnter
    \/ OnAlternativeLeave
    \/ OnCapturingGroupEnter
    \/ OnCapturingGroupLeave
    \/ OnBackreference

SpecRefs == Init /\ [][NextRefs]_vars

\* the events that create quantifiers and the elements they may wrap
NextQuant ==
    \/ SetSource
    \/ OnPatternEnter
    \/ OnAlternativeEnter
    \/ OnAlternativeLeave
    \/ OnLookaroundAssertionEnter
    \/ OnLookaroundAssertionLeave
    \/ OnEdgeAssertion
    \/ OnCharacter
    \/ OnQuantifier

SpecQuant == Init /\ [][NextQuant]_vars

----------------------------------------------------------------------------
(* The assembler under the events of character classes.  An error ends    *)
(* the event stream of its pattern: the next event is an onPatternEnter.   *)

InStream == InPattern /\ ~threw

SetClassSource ==
    /\ _state[AsmParser].source # ClassSource
    /\ Emits([Machine(AsmParser) EXCEPT !.source = ClassSource], 0, FALSE)

OnCharacterClassEnter ==
    /\ InStream /\ CanAllocate /\ CanConsume
    /\ \E negate, unicodeSets \in BOOLEAN :
         LET i == index[AsmParser] IN
         Emits(onCharacterClassEnter(Machine(AsmParser), i, negate, unicodeSets),
               i + 1, TRUE)

OnCharacterClassLeave ==
    /\ InStream /\ CanAllocate
    /\ LET i == index[AsmParser] IN
       Emits(onCharacterClassLeave(Machine(AsmParser), LeaveStart, i), i, TRUE)

\* a character of a class body: a letter or the hyphen
OnClassCharacter ==
    /\ InStream /\ CanAllocate /\ CanConsume
    /\ \E value \in {97, HYPHEN_MINUS} :
         LET i == index[AsmParser] IN
         Emits(onCharacter(Machine(AsmParser), i, i + 1, value), i + 1, TRUE)

\* the start offset of the k-th last element of the cursor, which the
\* validator remembered when it read that element
OperandStart(k) ==
    LET n == heap[_state[AsmParser]._node]
        elements == IF "elements" \in DOMAIN n THEN n.elements ELSE <<>>
    IN IF Len(elements) >= k THEN heap[elements[Len(elements) - k + 1]].start
       ELSE index[AsmParser]

\* the start offset of the expression an operator event closes
ExpressionStart ==
    LET buffered == BufferGet(_state[AsmParser]._expressionBufferMap,
                              _state[AsmParser]._node)
    IN IF buffered # Null THEN heap[buffered].start ELSE OperandStart(2)

\* the start offset of the range an onCharacterClassRange event closes:
\* `min max` in a class with unicodeSets, `min - max` in one without
RangeStart ==
    LET n == heap[_state[AsmParser]._node]
    IN IF "unicodeSets" \in DOMAIN n /\ n.unicodeSets
       THEN OperandStart(2) ELSE OperandStart(3)

OnCharacterClassRange ==
    /\ InStream /\ CanAllocate
    /\ Emits(onCharacterClassRange(Machine(AsmParser), RangeStart,
                                   index[AsmParser]),
             index[AsmParser], TRUE)

OnClassIntersection ==
    /\ InStream /\ CanAllocate
    /\ Emits(onClassIntersection(Machine(AsmParser), ExpressionStart,
                                 index[AsmParser]),
             index[AsmParser], TRUE)

OnClassSubtraction ==
    /\ InStream /\ CanAllocate
    /\ Emits(onClassSubtraction(Machine(AsmParser), ExpressionStart,
                                index[AsmParser]),
             index[AsmParser], TRUE)

NextClass ==
    \/ SetClassSource
    \/ OnPatternEnter
    \/ OnAlternativeEnter
    \/ OnCharacterClassEnter
    \/ OnCharacterClassLeave
    \/ OnClassCharacter
    \/ OnCharacterClassRange
    \/ OnClassIntersection
    \/ OnClassSubtraction

SpecClass == Init /\ [][NextClass]_vars

\* the class events, and quantifiers on what the alternative holds
NextLinks ==
    \/ SetClassSource
    \/ OnPatternEnter
    \/ OnAlternativeEnter
    \/ OnCharacterClassEnter
    \/ OnCharacterClassLeave
    \/ OnClassCharacter
    \/ OnCharacterClassRange
    \/ OnClassIntersection
    \/ OnClassSubtraction
    \/ OnQuantifier

SpecLinks == Init /\ [][NextLinks]_vars

SetClassSetSource ==
    /\ _state[AsmParser].source # ClassSetSource
    /\ Emits([Machine(AsmParser) EXCEPT !.source = ClassSetSource], 0, FALSE)

\* a class of a pattern with the v flag
OnClassSetEnter ==
    /\ InStream /\ CanAllocate /\ CanConsume
    /\ LET i == index[AsmParser] IN
       Emits(onCharacterClassEnter(Machine(AsmParser), i, FALSE, TRUE), i + 1, TRUE)

\* a character that is an operand of a class set expression
OnClassSetCharacter ==
    /\ InStream /\ CanAllocate /\ CanConsume
    /\ LET i == index[AsmParser] IN
       Emits(onCharacter(Machine(AsmParser), i, i + 1, 97), i + 1, TRUE)

\* class set expressions in whole patterns, one pattern after another on
\* one state; a pattern that is entered while another is open stands for a
\* parse that follows a parse the validator gave up
NextBuffer ==
    \/ SetClassSetSource
    \/ OnPatternEnter
    \/ OnPatternLeave
    \/ OnAlternativeEnter
    \/ OnAlternativeLeave
    \/ OnClassSetEnter
    \/ OnCharacterClassLeave
    \/ OnClassSetCharacter
    \/ OnClassIntersection
    \/ OnClassSubtraction

SpecBuffer == Init /\ [][NextBuffer]_vars

SetReuseSource ==
    /\ _state[AsmParser].source # ReuseSource
    /\ Emits([Machine(AsmParser) EXCEPT !.source = ReuseSource], 0, FALSE)

\* groups and backreferences in one pattern after another on one state; a
\* pattern that is entered while another is open, or after an error,
\* stands for a parse that follows a parse that was given up; the Leave
\* event of an Alternative, which reads and writes neither list, is left out
NextReuse ==
    \/ SetReuseSource
    \/ OnPatternEnter
    \/ OnPatternLeave
    \/ OnAlternativeEnter
    \/ OnCapturingGroupEnter
    \/ OnCapturingGroupLeave
    \/ OnBackreference

SpecReuse == Init /\ [][NextReuse]_vars

----------------------------------------------------------------------------
(* The assembler under the Enter/Leave pairs and the leaf events.          *)

SetTreeSource ==
    /\ _state[AsmParser].source # TreeSource
    /\ Emits([Machine(AsmParser) EXCEPT !.source = TreeSource], 0, FALSE)

OnGroupEnter ==
    /\ InStream /\ CanAllocate /\ CanConsume
    /\ LET i == index[AsmParser] IN
       Emits(onGroupEnter(Machine(AsmParser), i), i + 1, TRUE)

OnGroupLeave ==
    /\ InStream
    /\ LET i == index[AsmParser] IN
       Emits(onGroupLeave(Machine(AsmParser), LeaveStart, i), i, TRUE)

OnModifiersEnter ==
    /\ InStream /\ CanAllocate
    /\ LET i == index[AsmParser] IN
       Emits(onModifiersEnter(Machine(AsmParser), i), i, TRUE)

OnModifiersLeave ==
    /\ InStream
    /\ LET i == index[AsmParser] IN
       Emits(onModifiersLeave(Machine(AsmParser), LeaveStart, i), i, TRUE)

OnClassStringDisjunctionEnter ==
    /\ InStream /\ CanAllocate /\ CanConsume
    /\ LET i == index[AsmParser] IN
       Emits(onClassStringDisjunctionEnter(Machine(AsmParser), i), i + 1, TRUE)

OnClassStringDisjunctionLeave ==
    /\ InStream
    /\ LET i == index[AsmParser] IN
       Emits(onClassStringDisjunctionLeave(Machine(AsmParser), LeaveStart, i),
             i, TRUE)

OnStringAlternativeEnter ==
    /\ InStream /\ CanAllocate
    /\ LET i == index[AsmParser] IN
       Emits(onStringAlternativeEnter(Machine(AsmParser), i), i, TRUE)

OnStringAlternativeLeave ==
    /\ InStream
    /\ LET i == index[AsmParser] IN
       Emits(onStringAlternativeLeave(Machine(AsmParser), LeaveStart, i), i, TRUE)

OnWordBoundaryAssertion ==
    /\ InStream /\ CanAllocate /\ CanConsume
    /\ LET i == index[AsmParser] IN
       Emits(onWordBoundaryAssertion(Machine(AsmParser), i, i + 1, "word", FALSE),
             i + 1, TRUE)

OnAnyCharacterSet ==
    /\ InStream /\ CanAllocate /\ CanConsume
    /\ LET i == index[AsmParser] IN
       Emits(onAnyCharacterSet(Machine(AsmParser), i, i + 1, "any"), i + 1, TRUE)

OnEscapeCharacterSet ==
    /\ InStream /\ CanAllocate /\ CanConsume
    /\ LET i == index[AsmParser] IN
       Emits(onEscapeCharacterSet(Machine(AsmParser), i, i + 1, "digit", FALSE),
             i + 1, TRUE)

\* \p{L}, and \p{RGI_Emoji}, a property of strings
OnUnicodePropertyCharacterSet ==
    /\ InStream /\ CanAllocate /\ CanConsume
    /\ \E strings, negate \in BOOLEAN, value \in {NullValue, Str(<<"L">>)} :
         LET i == index[AsmParser] IN
         Emits(onUnicodePropertyCharacterSet(Machine(AsmParser), i, i + 1,
                   "property", Str(<<"L">>), value, negate, strings),
               i + 1, TRUE)

NextTree ==
    \/ SetTreeSource
    \/ OnPatternEnter
    \/ OnPatternLeave
    \/ OnAlternativeEnter
    \/ OnAlternativeLeave
    \/ OnGroupEnter
    \/ OnGroupLeave
    \/ OnModifiersEnter
    \/ OnModifiersLeave
    \/ OnCapturingGroupEnter
    \/ OnCapturingGroupLeave
    \/ OnLookaroundAssertionEnter
    \/ OnLookaroundAssertionLeave
    \/ OnCharacterClassEnter
    \/ OnCharacterClassLeave
    \/ OnClassStringDisjunctionEnter
    \/ OnClassStringDisjunctionLeave
    \/ OnStringAlternativeEnter
    \/ OnStringAlternativeLeave
    \/ OnCharacter
    \/ OnQuantifier

SpecTree == Init /\ [][NextTree]_vars

\* the leaf events, under the cursors that take them
NextLeaf ==
    \/ SetSource
    \/ OnPatternEnter
    \/ OnAlternativeEnter
    \/ OnCharacterClassEnter
    \/ OnEdgeAssertion
    \/ OnWordBoundaryAssertion
    \/ OnAnyCharacterSet
    \/ OnEscapeCharacterSet
    \/ OnUnicodePropertyCharacterSet
    \/ OnCharacter
    \/ OnBackreference

SpecLeaf == Init /\ [][NextLeaf]_vars

----------------------------------------------------------------------------
(* The group specifiers under the calls a validator makes while it reads a *)
(* pattern: consumeDisjunction calls enterDisjunction, then                *)
(* enterAlternative(i) for i = 0, 1, ... and at last leaveDisjunction; a     *)
(* named group inside an alternative calls addToScope.  The validator of   *)
(* each edition makes the same calls.                                      *)

CaptureNames == {"n", "m"}

\* the parsers and the cache take no part
SpecifiersOnly ==
    UNCHANGED <<heap, _state, index, open, threw, globalParseCache, now, calls,
                lru, visitor, pool>>

\* the innermost open disjunction
Innermost == walk.nesting[Len(walk.nesting)]

InAlternative == walk.nesting # <<>> /\ Innermost.alternative >= 0

CanBranch == Len(groupSpecifiers2025.branches) < MaxBranches

\* validatePattern starts with clear()
Clear ==
    /\ walk # Outside
    /\ groupSpecifiers2018' = ES2018_clear(groupSpecifiers2018)
    /\ groupSpecifiers2025' = ES2025_clear(groupSpecifiers2025)
    /\ walk' = Outside
    /\ SpecifiersOnly

EnterDisjunction ==
    /\ CanBranch
    /\ (walk.nesting = <<>> /\ walk.entered = 0) \/ InAlternative
    /\ groupSpecifiers2018' = ES2018_enterDisjunction(groupSpecifiers2018)
    /\ groupSpecifiers2025' = ES2025_enterDisjunction(groupSpecifiers2025)
    /\ walk' = [walk EXCEPT
                  !.nesting = Append(@, [disjunction |-> walk.entered + 1,
                                         alternative |-> -1,
                                         before |-> groupSpecifiers2025.branchID]),
                  !.entered = @ + 1]
    /\ SpecifiersOnly

EnterAlternative ==
    /\ walk.nesting # <<>>
    /\ LET i == Innermost.alternative + 1 IN
       /\ i > 0 => CanBranch
       /\ groupSpecifiers2018' = ES2018_enterAlternative(groupSpecifiers2018)
       /\ groupSpecifiers2025' = ES2025_enterAlternative(groupSpecifiers2025, i)
       /\ walk' = [walk EXCEPT !.nesting[Len(walk.nesting)].alternative = i]
    /\ SpecifiersOnly

LeaveDisjunction ==
    /\ InAlternative
    /\ groupSpecifiers2018' = ES2018_leaveDisjunction(groupSpecifiers2018)
    /\ groupSpecifiers2025' = ES2025_leaveDisjunction(groupSpecifiers2025)
    /\ walk' = [walk EXCEPT !.nesting = SubSeq(@, 1, Len(@) - 1)]
    /\ SpecifiersOnly

AddToScope ==
    /\ InAlternative
    /\ Len(walk.declarations) < MaxDeclarations
    /\ \E name \in CaptureNames :
         /\ groupSpecifiers2018' = ES2018_addToScope(groupSpecifiers2018, name)
         /\ groupSpecifiers2025' = ES2025_addToScope(groupSpecifiers2025, name)
         /\ walk' = [walk EXCEPT
                       !.declarations = Append(@, [name |-> name,
                                                   nesting |-> walk.nesting])]
    /\ SpecifiersOnly

NextGroups ==
    \/ Clear
    \/ EnterDisjunction
    \/ EnterAlternative
    \/ LeaveDisjunction
    \/ AddToScope

SpecGroups == Init /\ [][NextGroups]_vars

----------------------------------------------------------------------------
(* The parser API under an arbitrary sequence of calls on the two parser    *)
(* instances, which share globalParseCache.                                 *)

\* the call ended with outcome r; `call` names the operation and arguments
Returns(p, r, call) ==
    /\ heap' = r.S.heap
    /\ _state' = [_state EXCEPT ![p] = FieldsOf(r.S)]
    /\ threw' = r.S.threw
    /\ globalParseCache' = r.g
    /\ calls' = Append(calls,
                       call @@ [parser |-> p, value |-> r.value,
                                threw |-> r.S.threw, hit |-> r.hit])
    /\ UNCHANGED <<index, open, now, components>>

CanCall == Len(calls) < MaxCalls

NoFlags == [unicode |-> FALSE, unicodeSets |-> FALSE]

\* the arguments callers pass to parseLiteral
LiteralArguments ==
    { [source |-> <<"/", "(", "a", ")", "\\", "1", "/">>, start |-> 0, end |-> 7],
      [source |-> <<"/", "(", "a", "\\", "1", ")", "/">>, start |-> 0, end |-> 7],
      [source |-> <<"/", "a", "*", "/", "g">>, start |-> 0, end |-> 5],
      [source |-> <<"/", "a", "*", "/", "g">>, start |-> 0, end |-> 4],
      [source |-> <<"/", "(", "a", "/">>, start |-> 0, end |-> 4] }

\* the arguments callers pass to parsePattern
PatternArguments ==
    { [source |-> <<"(", "a", ")", "\\", "1">>, start |-> 0, end |-> 5],
      [source |-> <<"(", "a", "|", "b", ")">>, start |-> 0, end |-> 5],
      [source |-> <<"(", "a", "|", "b", ")">>, start |-> 1, end |-> 2],
      [source |-> <<"^", "a", "*", "?">>, start |-> 0, end |-> 4] }

\* the arguments callers pass to parseFlags
FlagsArguments ==
    { [source |-> <<"g">>, start |-> 0, end |-> 1],
      [source |-> <<"d">>, start |-> 0, end |-> 1],
      [source |-> <<"g", "g">>, start |-> 0, end |-> 2] }

ParseLiteral ==
    /\ CanCall
    /\ \E p \in Parsers : \E a \in LiteralArguments :
         \E r \in {parseLiteral(Machine(p), globalParseCache, now,
                               a.source, a.start, a.end)} :
             Returns(p, r, [op |-> "parseLiteral", source |-> a.source,
                            start |-> a.start, end |-> a.end, flags |-> NoFlags])

ParsePattern ==
    /\ CanCall
    /\ \E p \in Parsers : \E a \in PatternArguments :
         \E r \in {parsePattern(Machine(p), globalParseCache, now,
                               a.source, a.start, a.end, NoFlags)} :
             Returns(p, r, [op |-> "parsePattern", source |-> a.source,
                            start |-> a.start, end |-> a.end, flags |-> NoFlags])

ParseFlags ==
    /\ CanCall
    /\ \E p \in Parsers : \E a \in FlagsArguments :
         \E r \in {parseFlags(Machine(p), globalParseCache, now,
                             a.source, a.start, a.end)} :
             Returns(p, r, [op |-> "parseFlags", source |-> a.source,
                            start |-> a.start, end |-> a.end, flags |-> NoFlags])

\* time passes between calls
Tick ==
    /\ now < MaxClock
    /\ now' = now + 1
    /\ UNCHANGED <<heap, _state, index, open, threw, globalParseCache, calls,
                   components>>

NextParse ==
    \/ ParseLiteral
    \/ ParsePattern
    \/ ParseFlags
    \/ Tick

SpecParse == Init /\ [][NextParse]_vars

\* globalParseCache.clear() between calls
ClearCache ==
    /\ globalParseCache # RegExpParseCache
    /\ globalParseCache' = RegExpParseCache_clear(globalParseCache)
    /\ UNCHANGED <<heap, _state, index, open, threw, now, calls, components>>

\* the calls of the API, with the cache cleared at any time between them
NextFrame ==
    \/ ParseLiteral
    \/ ParsePattern
    \/ ParseFlags
    \/ ClearCache
    \/ Tick

SpecFrame == Init /\ [][NextFrame]_vars

\* a caller visits an AST a call returned; the visitor keeps its handler
\* cache from one visit to the next
Visit ==
    /\ visitor.visits < MaxVisits
    /\ \E root \in {calls[i].value : i \in 1 .. Len(calls)} \ {Null} :
         visitor' = [v |-> visit([visitor.v EXCEPT !.log = <<>>, !.threw = FALSE],
                                 heap, root),
                     root |-> root,
                     visits |-> visitor.visits + 1]
    /\ UNCHANGED <<heap, _state, index, open, threw, globalParseCache, now, calls,
                   groupSpecifiers2018, groupSpecifiers2025, walk, lru, pool>>

\* the calls of the API and visits of the ASTs they return
NextVisit ==
    \/ ParseLiteral
    \/ ParsePattern
    \/ ParseFlags
    \/ Visit

SpecVisit == Init /\ [][NextVisit]_vars

----------------------------------------------------------------------------
(* An ObjectPool of capacity SmallPool under an arbitrary sequence of        *)
(* acquire, release, releaseAll and clear calls.  `holders` lists the        *)
(* objects acquire returned and nobody released since, one entry for each    *)
(* acquire; a caller may release an object again that it released before.   *)

PoolOnly ==
    UNCHANGED <<heap, _state, index, open, threw, globalParseCache, now, calls,
                groupSpecifiers2018, groupSpecifiers2025, walk, lru, visitor>>

CanCallPool == pool.calls < MaxPoolCalls

\* seq without the first occurrence of x
WithoutFirst(seq, x) ==
    IF \E i \in 1 .. Len(seq) : seq[i] = x
    THEN LET i == CHOOSE j \in 1 .. Len(seq) :
                      seq[j] = x /\ \A k \in 1 .. j - 1 : seq[k] # x
         IN SubSeq(seq, 1, i - 1) \o SubSeq(seq, i + 1, Len(seq))
    ELSE seq

Acquire ==
    /\ CanCallPool
    /\ LET r == acquire(pool.p, pool.objects) IN
       pool' = [p |-> r.p, objects |-> r.objects,
                holders |-> Append(pool.holders, r.value),
                calls |-> pool.calls + 1]
    /\ PoolOnly

\* a holder fills the object it holds
Fill ==
    /\ \E i \in 1 .. Len(pool.holders) :
         /\ pool.objects[pool.holders[i]].elements = <<>>
         /\ pool' = [pool EXCEPT !.objects[pool.holders[i]].elements = <<1>>]
    /\ PoolOnly

Release ==
    /\ CanCallPool
    /\ \E obj \in 1 .. Len(pool.objects) :
         LET r == release(pool.p, pool.objects, obj) IN
         pool' = [p |-> r.p, objects |-> r.objects,
                  holders |-> WithoutFirst(pool.holders, obj),
                  calls |-> pool.calls + 1]
    /\ PoolOnly

\* releaseAll of two objects a caller holds
ReleaseAll ==
    /\ CanCallPool
    /\ \E i, j \in 1 .. Len(pool.holders) :
         /\ i < j
         /\ LET objs == <<pool.holders[i], pool.holders[j]>>
                r == releaseAll(pool.p, pool.objects, objs)
            IN pool' = [p |-> r.p, objects |-> r.objects,
                        holders |-> WithoutFirst(WithoutFirst(pool.holders, objs[1]),
                                                 objs[2]),
                        calls |-> pool.calls + 1]
    /\ PoolOnly

ClearPool ==
    /\ CanCallPool
    /\ pool.p.pool # <<>>
    /\ pool' = [pool EXCEPT !.p = ObjectPool_clear(@), !.calls = @ + 1]
    /\ PoolOnly

NextPool ==
    \/ Acquire
    \/ Fill
    \/ Release
    \/ ReleaseAll
    \/ ClearPool

SpecPool == Init /\ [][NextPool]_vars

----------------------------------------------------------------------------
(* An LRUCache of capacity SmallSize under an arbitrary sequence of get and *)
(* set, has and clear calls, with the clock ticking between calls or not.   *)
(* `used` lists the keys of the entries by their most recent access, the    *)
(* least recent first; `last` is the last call, with its key, whether the   *)
(* key was in the cache and the size of the cache before the call.          *)

CacheKeys == {"a", "b", "c"}

KeysOf(c) == {c.cache[i].key : i \in 1 .. Len(c.cache)}

Without(seq, k) == SelectSeq(seq, LAMBDA x : x # k)

CacheOnly ==
    UNCHANGED <<heap, _state, index, open, threw, globalParseCache, now, calls,
                groupSpecifiers2018, groupSpecifiers2025, walk, visitor, pool>>

LRUGet(k) ==
    /\ lru.accesses < MaxAccesses
    /\ LET r == LRUCache_get(lru.c, k, now) IN
       lru' = [c |-> r.c,
               used |-> IF r.value # Null THEN Append(Without(lru.used, k), k)
                        ELSE lru.used,
               accesses |-> lru.accesses + 1,
               last |-> [op |-> "get", key |-> k, found |-> r.value # Null,
                         size |-> Len(lru.c.cache)]]
    /\ CacheOnly

LRUSet(k) ==
    /\ lru.accesses < MaxAccesses
    /\ LET c1 == LRUCache_set(lru.c, k, DUMMY_PATTERN, now) IN
       lru' = [c |-> c1,
               used |-> Append(SelectSeq(lru.used,
                                         LAMBDA x : x # k /\ x \in KeysOf(c1)), k),
               accesses |-> lru.accesses + 1,
               last |-> [op |-> "set", key |-> k,
                         found |-> LRUCache_has(lru.c, k),
                         size |-> Len(lru.c.cache)]]
    /\ CacheOnly

LRUHas(k) ==
    /\ lru.accesses < MaxAccesses
    /\ lru' = [lru EXCEPT !.accesses = @ + 1,
                          !.last = [op |-> "has", key |-> k,
                                    found |-> LRUCache_has(lru.c, k),
                                    size |-> Len(lru.c.cache)]]
    /\ CacheOnly

LRUClear ==
    /\ lru.accesses < MaxAccesses
    /\ lru' = [c |-> LRUCache_clear(lru.c), used |-> <<>>,
               accesses |-> lru.accesses + 1,
               last |-> [op |-> "clear", key |-> "", found |-> FALSE,
                         size |-> Len(lru.c.cache)]]
    /\ CacheOnly

NextLRU ==
    \/ \E k \in CacheKeys : LRUGet(k)
    \/ \E k \in CacheKeys : LRUSet(k)
    \/ \E k \in CacheKeys : LRUHas(k)
    \/ LRUClear
    \/ Tick

SpecLRU == Init /\ [][NextLRU]_vars

----------------------------------------------------------------------------
(* parsePattern on slices that the fast path takes and on slices it leaves  *)
(* to the validator, under both flag settings and both parsers.             *)

FastArguments ==
    { [source |-> <<"a", "_", "9">>, start |-> 0, end |-> 3],
      [source |-> <<"a", "_", "9">>, start |-> 1, end |-> 3],
      [source |-> <<"a", "_", "9">>, start |-> 1, end |-> 2],
      [source |-> <<"a", "_", "9">>, start |-> 1, end |-> 1],
      [source |-> <<"Z", "*">>, start |-> 0, end |-> 1],
      [source |-> <<"Z", "*">>, start |-> 0, end |-> 2],
      [source |-> <<"a", "-", "b">>, start |-> 0, end |-> 3] }

FlagSettings == {NoFlags, [unicode |-> TRUE, unicodeSets |-> FALSE]}

ParsePatternAt ==
    /\ CanCall
    /\ \E p \in Parsers : \E a \in FastArguments : \E flags \in FlagSettings :
         \E r \in {parsePattern(Machine(p), globalParseCache, now,
                               a.source, a.start, a.end, flags)} :
             Returns(p, r, [op |-> "parsePattern", source |-> a.source,
                            start |-> a.start, end |-> a.end, flags |-> flags])

NextFast ==
    \/ ParsePatternAt
    \/ Tick

SpecFast == Init /\ [][NextFast]_vars

----------------------------------------------------------------------------
(* parsePattern on one slice found at different offsets of different        *)
(* sources.                                                                 *)

OffsetArguments ==
    { [source |-> <<"(", "a", ")">>, start |-> 0, end |-> 3],
      [source |-> <<"x", "(", "a", ")">>, start |-> 1, end |-> 4],
      [source |-> <<"(", "a", ")", "y">>, start |-> 0, end |-> 3] }

ParsePatternWithin ==
    /\ CanCall
    /\ \E p \in Parsers : \E a \in OffsetArguments : \E flags \in FlagSettings :
         \E r \in {parsePattern(Machine(p), globalParseCache, now,
                               a.source, a.start, a.end, flags)} :
             Returns(p, r, [op |-> "parsePattern", source |-> a.source,
                            start |-> a.start, end |-> a.end, flags |-> flags])

NextOffset ==
    \/ ParsePatternWithin
    \/ Tick

SpecOffset == Init /\ [][NextOffset]_vars

----------------------------------------------------------------------------
(* parseLiteral on literals that the cache stores, among them one whose     *)
(* body is the text that stands for Infinity in a stored AST.               *)

CloneArguments ==
    { [source |-> <<"/">> \o INFINITY_MARK \o <<"/">>,
       start |-> 0, end |-> Len(INFINITY_MARK) + 2],
      [source |-> <<"/">> \o INFINITY_MARK \o <<"/", "g">>,
       start |-> 0, end |-> Len(INFINITY_MARK) + 3],
      [source |-> <<"/", "(", "a", "*", ")", "/">>, start |-> 0, end |-> 6],
      [source |-> <<"/", "(", "a", ")", "/", "g">>, start |-> 0, end |-> 6] }

ParseLiteralStored ==
    /\ CanCall
    /\ \E p \in Parsers : \E a \in CloneArguments :
         \E r \in {parseLiteral(Machine(p), globalParseCache, now,
                               a.source, a.start, a.end)} :
             Returns(p, r, [op |-> "parseLiteral", source |-> a.source,
                            start |-> a.start, end |-> a.end, flags |-> NoFlags])

NextClone ==
    \/ ParseLiteralStored
    \/ Tick

SpecClone == Init /\ [][NextClone]_vars

----------------------------------------------------------------------------
(* Properties of backreference resolution (SpecRefs)                       *)

Nodes(type) == {id \in DOMAIN heap : TypeOf(heap, id) = type}

SetMax(S) == CHOOSE x \in S : \A y \in S : y <= x

SetMin(S) == CHOOSE x \in S : \A y \in S : x <= y

RECURSIVE Ascending(_)
Ascending(S) ==
    IF S = {} THEN <<>> ELSE <<SetMin(S)>> \o Ascending(S \ {SetMin(S)})

\* the capturing groups entered since the last onPatternEnter, in the order
\* of their Enter events (objects are allocated in event order)
EnteredGroups ==
    LET patterns == Nodes("Pattern")
        since == IF patterns = {} THEN 0 ELSE SetMax(patterns)
    IN Ascending({g \in Nodes("CapturingGroup") : g > since})

\* the entered groups a reference designates, in Enter order
Designated(ref) ==
    LET gs == EnteredGroups IN
    IF "num" \in DOMAIN ref
    THEN IF ref.num \in 1 .. Len(gs) THEN <<gs[ref.num]>> ELSE <<>>
    ELSE SelectSeq(gs, LAMBDA g : heap[g].name = ref)

Pending == {_state[AsmParser]._backreferences[i] :
                i \in 1 .. Len(_state[AsmParser]._backreferences)}

\* C6: when onPatternLeave completes, a pending backreference that exactly
\* one group matches has resolved = that group and ambiguous = false, and
\* one that two or more groups match has resolved = the list of exactly
\* those groups in emission order and ambiguous = true.
C6_ResolvedOneOrMany ==
    [][ (OnPatternLeave /\ ~threw') =>
          \A b \in Pending :
            LET m == Designated(heap[b].ref) IN
            /\ Len(m) = 1 =>
                 heap'[b].resolved = One(m[1]) /\ heap'[b].ambiguous = FALSE
            /\ Len(m) >= 2 =>
                 heap'[b].resolved = Many(m) /\ heap'[b].ambiguous = TRUE ]_vars

\* a named backreference resolved to two groups, an earlier and a later one
C6_Witness ==
    \E b \in Nodes("Backreference") : \E g1, g2 \in Nodes("CapturingGroup") :
        /\ g1 < b /\ b < g2
        /\ heap[b].resolved = Many(<<g1, g2>>)
        /\ heap[b].ambiguous = TRUE

\* C7: when onPatternLeave meets a pending backreference that no group
\* matches, it raises an error.
C7_UnmatchedRaises ==
    [][ (OnPatternLeave /\ \E b \in Pending : Designated(heap[b].ref) = <<>>)
          => threw' ]_vars

----------------------------------------------------------------------------
(* Properties of onQuantifier (SpecQuant)                                  *)

Last(seq) == seq[Len(seq)]

Cursor == _state[AsmParser]._node

\* C9: onQuantifier with the cursor on an Alternative whose last element e
\* is quantifiable puts a new Quantifier q in e's place: q.element = e,
\* e.parent = q, q.parent = the Alternative, q.start = e.start,
\* q.raw = source.slice(e.start, end); the list keeps its length and its
\* earlier elements, e keeps its offsets, and the cursor stays.
C9_QuantifierWraps ==
    [][ ( /\ OnQuantifier
          /\ TypeOf(heap, Cursor) = "Alternative"
          /\ heap[Cursor].elements # <<>>
          /\ TypeOf(heap, Last(heap[Cursor].elements)) # "Quantifier"
          /\ ( TypeOf(heap, Last(heap[Cursor].elements)) = "Assertion"
                 => heap[Last(heap[Cursor].elements)].kind = "lookahead" ) )
        =>
        LET A == Cursor
            old == heap[A].elements
            new == heap'[A].elements
            e == Last(old)
            q == Last(new)
            end == index[AsmParser] + 1
        IN /\ ~threw'
           /\ Len(new) = Len(old)
           /\ SubSeq(new, 1, Len(new) - 1) = SubSeq(old, 1, Len(old) - 1)
           /\ q \notin DOMAIN heap
           /\ heap'[q].type = "Quantifier"
           /\ heap'[q].element = e
           /\ heap'[e].parent = q
           /\ heap'[q].parent = A
           /\ heap'[q].start = heap[e].start
           /\ heap'[q].end = end
           /\ heap'[q].raw = Str(slice(_state[AsmParser].source, heap[e].start, end))
           /\ heap'[e].start = heap[e].start
           /\ heap'[e].end = heap[e].end
           /\ _state'[AsmParser]._node = A ]_vars

\* the second element of the cursor's list was wrapped
C9_Witness ==
    /\ TypeOf(heap, Cursor) = "Alternative"
    /\ Len(heap[Cursor].elements) = 2
    /\ ~threw
    /\ LET q == Last(heap[Cursor].elements) IN
       /\ TypeOf(heap, q) = "Quantifier"
       /\ heap[heap[q].element].parent = q
       /\ heap[q].start = heap[heap[q].element].start
       /\ heap[q].start > 0
       /\ heap[q].end > heap[heap[q].element].end
       /\ heap[q].raw = Str(<<"b", "c">>)

\* C10: no Quantifier wraps a Quantifier or an Assertion other than a
\* lookahead, and onQuantifier raises an error when the cursor's element
\* list is empty or ends with a Quantifier or such an Assertion.
C10_NeverWrapsQuantifierOrAssertion ==
    /\ [](\A q \in Nodes("Quantifier") :
            /\ TypeOf(heap, heap[q].element) # "Quantifier"
            /\ TypeOf(heap, heap[q].element) = "Assertion"
                 => heap[heap[q].element].kind = "lookahead")
    /\ [][ ( /\ OnQuantifier
             /\ TypeOf(heap, Cursor) = "Alternative"
             /\ \/ heap[Cursor].elements = <<>>
                \/ TypeOf(heap, Last(heap[Cursor].elements)) = "Quantifier"
                \/ /\ TypeOf(heap, Last(heap[Cursor].elements)) = "Assertion"
                   /\ heap[Last(heap[Cursor].elements)].kind # "lookahead" )
           => threw' ]_vars

\* onQuantifier has refused to wrap a Quantifier: the operation threw and
\* the Quantifier it met is no longer in the cursor's list
C10_Witness ==
    /\ threw
    /\ TypeOf(heap, Cursor) = "Alternative"
    /\ \E q \in Nodes("Quantifier") :
         /\ heap[q].parent = Cursor
         /\ \A i \in 1 .. Len(heap[Cursor].elements) : heap[Cursor].elements[i] # q

----------------------------------------------------------------------------
(* Properties of the parser API and the cache (SpecParse, SpecIsolation)    *)

\* the properties through which a node owns its children
ChildKeys(n) ==
    {"pattern", "flags", "modifiers", "alternatives", "elements", "element",
     "expression", "left", "right", "add", "remove"}
        \cup (IF IsRange(n) THEN {"min", "max"} ELSE {})

\* the objects a property value refers to
Targets(k, v) ==
    IF IsArrayKey(k) THEN {v[i] : i \in 1 .. Len(v)} \ {Null}
    ELSE IF k = "resolved"
    THEN IF "one" \in DOMAIN v THEN {v.one}
         ELSE IF "many" \in DOMAIN v THEN {v.many[i] : i \in 1 .. Len(v.many)} \ {Null}
         ELSE {}
    ELSE {v} \ {Null}

Children(h, id) ==
    UNION {Targets(k, h[id][k]) : k \in ChildKeys(h[id]) \cap DOMAIN h[id]}

\* every object h[id] refers to, through `parent` and the cross links too
Referred(h, id) ==
    UNION {Targets(k, h[id][k]) : k \in DOMAIN h[id] \ ScalarKeys(h[id])}

RECURSIVE TreeFrom(_, _)
TreeFrom(h, found) ==
    LET more == found \cup UNION {Children(h, id) : id \in found}
    IN IF more = found THEN found ELSE TreeFrom(h, more)

\* the nodes of the tree whose root is `root`
Tree(h, root) == TreeFrom(h, {root})

RECURSIVE ReachableFrom(_, _)
ReachableFrom(h, found) ==
    LET more == found \cup UNION {Referred(h, id) : id \in found}
    IN IF more = found THEN found ELSE ReachableFrom(h, more)

\* the objects reachable from `root` by following references
Reachable(h, root) == ReachableFrom(h, {root})

\* what identifies the target of a cross link, whatever object it is
Address(h, id) ==
    IF id = Null \/ "type" \notin DOMAIN h[id] THEN NullValue
    ELSE [type |-> h[id].type, start |-> h[id].start, end |-> h[id].end]

\* the structure of the tree below id: kinds, scalar fields, child lists in
\* order with their null entries, cross links by address; `parent` left out
RECURSIVE Canon(_, _)
Canon(h, id) ==
    IF id = Null THEN NullValue
    ELSE
    LET n == h[id] IN
    [k \in DOMAIN n \ {"parent"} |->
        IF k \in ScalarKeys(n) THEN n[k]
        ELSE IF k = "resolved"
        THEN IF "one" \in DOMAIN n[k] THEN One(Address(h, n[k].one))
             ELSE IF "many" \in DOMAIN n[k]
             THEN Many([i \in 1 .. Len(n[k].many) |-> Address(h, n[k].many[i])])
             ELSE n[k]
        ELSE IF k = "references"
        THEN [i \in 1 .. Len(n[k]) |-> Address(h, n[k][i])]
        ELSE IF IsArrayKey(k)
        THEN [i \in 1 .. Len(n[k]) |-> Canon(h, n[k][i])]
        ELSE Canon(h, n[k])]

Calls == 1 .. Len(calls)

\* the roots handed to callers
Returned == {calls[i].value : i \in Calls} \ {Null}

Values(c) == {c.cache[i].value : i \in 1 .. Len(c.cache)}

\* the roots the three caches hold
Cached ==
    Values(globalParseCache.literalCache)
        \cup Values(globalParseCache.patternCache)
        \cup Values(globalParseCache.flagsCache)

\* the same operation on the same arguments by parsers with the same options
SameCall(c, d) ==
    /\ c.op = d.op
    /\ c.source = d.source /\ c.start = d.start /\ c.end = d.end
    /\ c.flags = d.flags
    /\ OptionsOf(c.parser) = OptionsOf(d.parser)

\* the same cache key tuple
SameTuple(c, d) ==
    /\ c.op = d.op
    /\ slice(c.source, c.start, c.end) = slice(d.source, d.start, d.end)
    /\ c.flags = d.flags
    /\ OptionsOf(c.parser) = OptionsOf(d.parser)

\* what the call gives on a new parser with the same options and an empty cache
Fresh(c) ==
    LET S == RegExpParserState(OptionsOf(c.parser))
                 @@ [heap |-> heap, threw |-> FALSE]
    IN IF c.op = "parseLiteral"
       THEN parseLiteral(S, RegExpParseCache, now, c.source, c.start, c.end)
       ELSE IF c.op = "parsePattern"
       THEN parsePattern(S, RegExpParseCache, now, c.source, c.start, c.end, c.flags)
       ELSE parseFlags(S, RegExpParseCache, now, c.source, c.start, c.end)

\* C1: a second call with the same arguments and parser options returns an
\* AST with the same structure as the AST the first call returned: the same
\* kinds, the same child lists without missing or null entries, the same
\* scalar fields.
C1_SecondCallSameStructure ==
    \A i, j \in Calls :
        (i < j /\ SameCall(calls[i], calls[j])) =>
            /\ calls[j].threw = calls[i].threw
            /\ Canon(heap, calls[j].value) = Canon(heap, calls[i].value)

\* C3: a call is served from a cache only if an earlier call with the same
\* tuple (slice, strict, ecmaVersion, unicode, unicodeSets) built the entry,
\* and every call ends in an AST or in an error as it would with an empty
\* cache.
C3_ServedOnlyUnderSameTuple ==
    \A j \in Calls :
        /\ calls[j].hit =>
             \E i \in 1 .. j - 1 :
                 SameTuple(calls[i], calls[j]) /\ ~calls[i].hit /\ ~calls[i].threw
        /\ calls[j].threw = Fresh(calls[j]).S.threw

\* C4: every node n of every returned AST, the RegExpLiteral root included,
\* has n.raw = source.slice(n.start, n.end).
C4_RawIsSlice ==
    \A i \in Calls :
        calls[i].value # Null =>
            \A n \in Tree(heap, calls[i].value) :
                heap[n].raw = Str(slice(calls[i].source, heap[n].start, heap[n].end))

\* C5: every Backreference in the tree of every returned AST has resolved =
\* a CapturingGroup, or a non-empty list of CapturingGroups.
C5_BackreferencesResolved ==
    \A i \in Calls :
        calls[i].value # Null =>
            \A b \in Tree(heap, calls[i].value) :
                TypeOf(heap, b) = "Backreference" =>
                    /\ "resolved" \in DOMAIN heap[b]
                    /\ \/ /\ "one" \in DOMAIN heap[b].resolved
                          /\ TypeOf(heap, heap[b].resolved.one) = "CapturingGroup"
                       \/ /\ "many" \in DOMAIN heap[b].resolved
                          /\ heap[b].resolved.many # <<>>
                          /\ \A k \in 1 .. Len(heap[b].resolved.many) :
                                 TypeOf(heap, heap[b].resolved.many[k]) = "CapturingGroup"

----------------------------------------------------------------------------
(* The callers of the API change the ASTs they were given.                  *)

MUTATED == Str(<<"M">>)

\* the caller of the last call overwrites a field of the AST it received
Mutate ==
    /\ calls # <<>>
    /\ Last(calls).value # Null
    /\ heap[Last(calls).value].raw # MUTATED
    /\ heap' = [heap EXCEPT ![Last(calls).value].raw = MUTATED]
    /\ UNCHANGED <<_state, index, open, threw, globalParseCache, now, calls,
                   components>>

NextIsolation ==
    \/ ParseLiteral
    \/ ParsePattern
    \/ ParseFlags
    \/ Mutate

SpecIsolation == Init /\ [][NextIsolation]_vars

\* C2: no object reachable from a returned AST is reachable from a cache
\* entry, so that a caller changing its AST leaves every cached AST as it
\* was.
C2_ReturnedIsolatedFromCache ==
    /\ [](\A r \in Returned : \A v \in Cached :
              Reachable(heap, r) \cap Reachable(heap, v) = {})
    /\ [][ Mutate => \A v \in Cached : Canon(heap', v) = Canon(heap, v) ]_vars

----------------------------------------------------------------------------
(* Properties of character classes (SpecClass)                             *)

\* the expression buffered for the class under the cursor, Null when none
Buffered == BufferGet(_state[AsmParser]._expressionBufferMap, Cursor)

\* the nodes whose parent is n and that no list or field of n holds
Discarded(n) ==
    {m \in DOMAIN heap : /\ "parent" \in DOMAIN heap[m]
                         /\ heap[m].parent = n
                         /\ m \notin Children(heap, n)
                         /\ m # Buffered}

\* C11: an onClassIntersection event in a class whose buffered expression
\* is a ClassSubtraction, and an onClassSubtraction event in a class whose
\* buffered expression is a ClassIntersection, raise an error; the left
\* operand of a ClassIntersection is never a ClassSubtraction and the left
\* operand of a ClassSubtraction is never a ClassIntersection.
C11_OperatorsNeverMixed ==
    /\ [](\A n \in Nodes("ClassIntersection") :
              TypeOf(heap, heap[n].left) # "ClassSubtraction")
    /\ [](\A n \in Nodes("ClassSubtraction") :
              TypeOf(heap, heap[n].left) # "ClassIntersection")
    /\ [][ (OnClassIntersection /\ TypeOf(heap, Buffered) = "ClassSubtraction")
             => threw' ]_vars
    /\ [][ (OnClassSubtraction /\ TypeOf(heap, Buffered) = "ClassIntersection")
             => threw' ]_vars

\* an operator event was refused in a class that has a ClassSubtraction
\* buffered: the right operand it popped is in no list any more
C11_Witness ==
    /\ threw
    /\ TypeOf(heap, Cursor) = "CharacterClass"
    /\ TypeOf(heap, Buffered) = "ClassSubtraction"
    /\ heap[Cursor].elements = <<>>
    /\ \E c \in Nodes("Character") : c > Buffered /\ Discarded(Cursor) = {c}

\* C12: onCharacterClassLeave on a class with a buffered expression and an
\* empty element list puts a new ExpressionCharacterClass in the class's
\* place, the last of its parent's list, with the class's start, end, raw
\* and negate and the buffered subtree as expression, whose parent becomes
\* the new node; the cursor becomes the parent and the buffer entry goes.
\* With a buffered expression and elements left it raises an error.  A class
\* without buffered expression stays a CharacterClass.
C12_LeaveRetypesClass ==
    [][ (OnCharacterClassLeave /\ TypeOf(heap, Cursor) = "CharacterClass") =>
        LET c == Cursor
            P == heap[c].parent
            e == Buffered
            old == heap[P].elements
            new == heap'[P].elements
            n == Last(new)
            end == index[AsmParser]
        IN /\ (e = Null) =>
                /\ ~threw'
                /\ new = old /\ Last(new) = c
                /\ heap'[c].type = "CharacterClass"
                /\ _state'[AsmParser]._node = P
           /\ (e # Null /\ heap[c].elements # <<>>) => threw'
           /\ (e # Null /\ heap[c].elements = <<>>) =>
                /\ ~threw'
                /\ Last(old) = c
                /\ Len(new) = Len(old)
                /\ SubSeq(new, 1, Len(new) - 1) = SubSeq(old, 1, Len(old) - 1)
                /\ n \notin DOMAIN heap
                /\ heap'[n].type = "ExpressionCharacterClass"
                /\ heap'[n].parent = P
                /\ heap'[n].start = heap[c].start
                /\ heap'[n].end = end /\ heap'[c].end = end
                /\ heap'[n].raw = heap'[c].raw
                /\ heap'[n].raw = Str(slice(_state[AsmParser].source,
                                            heap[c].start, end))
                /\ heap'[n].negate = heap[c].negate
                /\ heap'[n].expression = e
                /\ heap'[e].parent = n
                /\ _state'[AsmParser]._node = P
                /\ BufferGet(_state'[AsmParser]._expressionBufferMap, c) = Null
      ]_vars

\* a negated class nested in a class was left with a subtraction buffered
\* and is now an ExpressionCharacterClass, the last element of its parent
C12_Witness ==
    /\ ~threw
    /\ TypeOf(heap, Cursor) = "CharacterClass"
    /\ heap[Cursor].elements # <<>>
    /\ LET n == Last(heap[Cursor].elements) IN
       /\ TypeOf(heap, n) = "ExpressionCharacterClass"
       /\ heap[n].negate
       /\ heap[n].end > heap[n].start
       /\ TypeOf(heap, heap[n].expression) = "ClassSubtraction"
       /\ heap[heap[n].expression].parent = n
       /\ _state[AsmParser]._expressionBufferMap = <<>>

\* C13: the events of [a-z&&[^aeiou]] under the v flag are accepted: an
\* onClassIntersection event in a class with unicodeSets whose elements are
\* the range a-z and the nested negated class, nothing being buffered,
\* raises no error and buffers a ClassIntersection with left = the range
\* and right = the nested class.
C13_RangeOperandAccepted ==
    [][ ( /\ OnClassIntersection
          /\ TypeOf(heap, Cursor) = "CharacterClass"
          /\ heap[Cursor].unicodeSets
          /\ Buffered = Null
          /\ Len(heap[Cursor].elements) = 2
          /\ TypeOf(heap, heap[Cursor].elements[1]) = "CharacterClassRange"
          /\ TypeOf(heap, heap[Cursor].elements[2]) = "CharacterClass"
          /\ heap[heap[Cursor].elements[2]].negate )
        =>
        LET e == BufferGet(_state'[AsmParser]._expressionBufferMap, Cursor)
        IN /\ ~threw'
           /\ e # Null
           /\ heap'[e].type = "ClassIntersection"
           /\ heap'[e].left = heap[Cursor].elements[1]
           /\ heap'[e].right = heap[Cursor].elements[2] ]_vars

----------------------------------------------------------------------------
(* Properties of the group specifiers (SpecGroups)                         *)

\* distinct branches of one disjunction
Siblings(bs, A, B) == bs[A].base = bs[B].base /\ A # B

\* the least relation that holds the siblings and, with <<A's parent, B>>
\* or <<A, B's parent>>, holds <<A, B>>
RECURSIVE Closure(_, _)
Closure(bs, R) ==
    LET more == {p \in (DOMAIN bs) \X (DOMAIN bs) :
                    \/ bs[p[1]].parent # Null /\ <<bs[p[1]].parent, p[2]>> \in R
                    \/ bs[p[2]].parent # Null /\ <<p[1], bs[p[2]].parent>> \in R}
    IN IF more \subseteq R THEN R ELSE Closure(bs, R \cup more)

Separated(bs) ==
    Closure(bs, {p \in (DOMAIN bs) \X (DOMAIN bs) : Siblings(bs, p[1], p[2])})

\* C14: for every two branches A, B of the branch tree, separatedFrom(A, B)
\* is true iff A and B are distinct siblings of one disjunction, or A's
\* parent is separated from B, or A is separated from B's parent.
C14_SeparatedIffSiblingsOrParents ==
    LET bs == groupSpecifiers2025.branches IN
    /\ {p \in (DOMAIN bs) \X (DOMAIN bs) : separatedFrom(bs, p[1], p[2])}
           = Separated(bs)
    /\ \A A, B \in DOMAIN bs :
          separatedFrom(bs, A, B) <=>
             \/ Siblings(bs, A, B)
             \/ bs[A].parent # Null /\ separatedFrom(bs, bs[A].parent, B)
             \/ bs[B].parent # Null /\ separatedFrom(bs, A, bs[B].parent)

\* an alternative of a disjunction and a branch nested in another of its
\* alternatives: separated only because the parent of the latter is
C14_Witness ==
    LET bs == groupSpecifiers2025.branches IN
    \E A, B \in DOMAIN bs :
        /\ separatedFrom(bs, A, B)
        /\ ~Siblings(bs, A, B)
        /\ bs[A].parent # Null /\ ~separatedFrom(bs, bs[A].parent, B)
        /\ bs[B].parent # Null /\ Siblings(bs, A, bs[B].parent)
        /\ \E C \in DOMAIN bs : C # B /\ ~separatedFrom(bs, C, B)

\* two nestings lie in different alternatives of a disjunction both are in
Apart(p, q) ==
    \E i \in 1 .. Min(Len(p), Len(q)) :
        /\ p[i].disjunction = q[i].disjunction
        /\ p[i].alternative # q[i].alternative

\* the nestings in which name was added since the last clear
DeclaredIn(name) ==
    {walk.declarations[k].nesting :
        k \in {j \in 1 .. Len(walk.declarations) : walk.declarations[j].name = name}}

\* C15: under GroupSpecifiersAsES2025, where a name can be declared,
\* hasInScope(name) is false iff every earlier addToScope(name) was made
\* in a different alternative of a disjunction that encloses both places.
C15_InScopeIffNotApart ==
    InAlternative =>
        \A name \in CaptureNames :
            ~ES2025_hasInScope(groupSpecifiers2025, name)
                <=> \A d \in DeclaredIn(name) : Apart(d, walk.nesting)

\* n was declared twice, at two depths of one alternative, and is out of
\* scope here, in another alternative of the same disjunction
C15_Witness ==
    /\ InAlternative
    /\ Cardinality(DeclaredIn("n")) = 2
    /\ \E d, e \in DeclaredIn("n") : Len(d) < Len(e)
    /\ ~ES2025_hasInScope(groupSpecifiers2025, "n")
    /\ ES2025_hasInPattern(groupSpecifiers2025, "n")

\* C16: under GroupSpecifiersAsES2018, after any calls, hasInScope(name)
\* equals hasInPattern(name) and is true iff addToScope(name) was called
\* since the last clear.
C16_FlatScope ==
    \A name \in CaptureNames :
        /\ ES2018_hasInScope(groupSpecifiers2018, name)
             = ES2018_hasInPattern(groupSpecifiers2018, name)
        /\ ES2018_hasInScope(groupSpecifiers2018, name) <=> DeclaredIn(name) # {}

\* n, declared in another alternative of the disjunction being read, is in
\* scope under the flat rule (and out of scope under the rule of ES2025),
\* and m, not declared, is not
C16_Witness ==
    /\ InAlternative
    /\ DeclaredIn("n") # {}
    /\ \A d \in DeclaredIn("n") : Apart(d, walk.nesting)
    /\ ES2018_hasInScope(groupSpecifiers2018, "n")
    /\ ~ES2018_hasInScope(groupSpecifiers2018, "m")
    /\ ~ES2025_hasInScope(groupSpecifiers2025, "n")

----------------------------------------------------------------------------
(* Properties of the Enter/Leave pairs and the leaf events (SpecTree,      *)
(* SpecLeaf)                                                               *)

EnterEvent ==
    \/ OnAlternativeEnter
    \/ OnGroupEnter
    \/ OnModifiersEnter
    \/ OnCapturingGroupEnter
    \/ OnLookaroundAssertionEnter
    \/ OnCharacterClassEnter
    \/ OnClassStringDisjunctionEnter
    \/ OnStringAlternativeEnter

LeaveEvent ==
    \/ OnAlternativeLeave
    \/ OnGroupLeave
    \/ OnModifiersLeave
    \/ OnCapturingGroupLeave
    \/ OnLookaroundAssertionLeave
    \/ OnCharacterClassLeave
    \/ OnClassStringDisjunctionLeave
    \/ OnStringAlternativeLeave

\* the list of h[c] that takes its children
ChildList(h, c) ==
    IF "alternatives" \in DOMAIN h[c] THEN h[c].alternatives
    ELSE IF "elements" \in DOMAIN h[c] THEN h[c].elements
    ELSE <<>>

\* n is the child of c that came last: the last of its list, or its
\* modifiers
LastChild(h, c, n) ==
    IF h[n].type = "Modifiers" THEN h[c].modifiers = n
    ELSE ChildList(h, c) # <<>> /\ Last(ChildList(h, c)) = n

\* the nodes from c up to the root, c first
RECURSIVE Ancestry(_, _)
Ancestry(h, c) ==
    IF c = Null \/ "parent" \notin DOMAIN h[c] THEN <<>>
    ELSE <<c>> \o Ancestry(h, h[c].parent)

\* the Pattern made by the last onPatternEnter
CurrentPattern == SetMax(Nodes("Pattern"))

\* C17: an Enter event creates a node whose parent is the cursor, makes it
\* the last child of the cursor and the new cursor; a Leave event sets end
\* and raw of the cursor and makes its parent the cursor, which is the node
\* that was the cursor before the matching Enter because no event changes
\* the parent of a node that is still open; the open nodes lead up to the
\* Pattern made by onPatternEnter, which is the cursor again when all of
\* them are left, so that the pattern getter succeeds.
C17_EnterLeaveAreLIFO ==
    /\ [][ (~threw' /\ EnterEvent) =>
             LET n == Len(heap) + 1 IN
             /\ DOMAIN heap' = 1 .. n
             /\ heap'[n].parent = Cursor
             /\ LastChild(heap', Cursor, n)
             /\ SubSeq(ChildList(heap', Cursor), 1, Len(ChildList(heap, Cursor)))
                    = ChildList(heap, Cursor)
             /\ _state'[AsmParser]._node = n ]_vars
    /\ [][ (~threw' /\ LeaveEvent) =>
             /\ heap'[Cursor].end = index[AsmParser]
             /\ heap'[Cursor].raw = Str(slice(_state[AsmParser].source,
                                             heap[Cursor].start, index[AsmParser]))
             /\ _state'[AsmParser]._node = heap[Cursor].parent ]_vars
    /\ [][ \A k \in 1 .. Len(Ancestry(heap, Cursor)) :
             heap'[Ancestry(heap, Cursor)[k]].parent
                 = heap[Ancestry(heap, Cursor)[k]].parent ]_vars
    /\ [](InPattern =>
             /\ Ancestry(heap, Cursor) # <<>>
             /\ Last(Ancestry(heap, Cursor)) = CurrentPattern)
    /\ [][ (OnPatternLeave /\ Cursor = CurrentPattern) =>
             /\ _state'[AsmParser]._node = CurrentPattern
             /\ (~threw' => ~getPattern(Machine(AsmParser))'.threw) ]_vars

\* a group holding an alternative that holds a character was entered and
\* left, all in reverse order, and the cursor is the alternative that was
\* the cursor before the group
C17_Witness ==
    /\ InPattern /\ ~threw
    /\ TypeOf(heap, Cursor) = "Alternative"
    /\ heap[Cursor].parent = CurrentPattern
    /\ heap[Cursor].elements # <<>>
    /\ LET g == Last(heap[Cursor].elements) IN
       /\ TypeOf(heap, g) = "Group"
       /\ heap[g].end > heap[g].start
       /\ Len(heap[g].alternatives) = 1
       /\ heap[heap[g].alternatives[1]].elements # <<>>
       /\ heap[heap[g].alternatives[1]].end = heap[g].end

LeafEvent ==
    \/ OnCharacter
    \/ OnEdgeAssertion
    \/ OnWordBoundaryAssertion
    \/ OnAnyCharacterSet
    \/ OnEscapeCharacterSet
    \/ OnUnicodePropertyCharacterSet
    \/ OnBackreference

\* C18: a leaf event that does not throw adds exactly one node to the heap;
\* the node is finished (it has end and raw, the slice of the source from
\* its start to its end, and takes no children), its parent is the cursor
\* and it is the last element of the cursor's elements, whose earlier
\* elements stay as they were and in place; the cursor stays the cursor,
\* and no other node changes.
C18_LeafAppendsOne ==
    [][ (~threw' /\ LeafEvent) =>
          LET n == Len(heap) + 1 IN
          /\ Len(heap') = n
          /\ heap'[n].parent = Cursor
          /\ heap'[n].end = index'[AsmParser]
          /\ heap'[n].start < heap'[n].end
          /\ heap'[n].raw = Str(slice(_state[AsmParser].source,
                                      heap'[n].start, heap'[n].end))
          /\ ChildList(heap', n) = <<>>
          /\ heap'[Cursor] = [heap[Cursor] EXCEPT !.elements = Append(@, n)]
          /\ \A k \in 1 .. Len(heap) : k # Cursor => heap'[k] = heap[k]
          /\ _state'[AsmParser]._node = Cursor ]_vars

\* the cursor is a character class that took a character and then a
\* character set, in that order, and is still the cursor
C18_Witness ==
    /\ InPattern /\ ~threw
    /\ TypeOf(heap, Cursor) = "CharacterClass"
    /\ Len(heap[Cursor].elements) = 2
    /\ TypeOf(heap, heap[Cursor].elements[1]) = "Character"
    /\ TypeOf(heap, heap[Cursor].elements[2]) = "CharacterSet"
    /\ heap[heap[Cursor].elements[2]].parent = Cursor
    /\ heap[heap[Cursor].elements[1]].end = heap[heap[Cursor].elements[2]].start

----------------------------------------------------------------------------
(* Properties of the offsets and the raw texts of returned ASTs (SpecParse) *)

\* the calls that returned an AST
Successful == {i \in Calls : ~calls[i].threw /\ calls[i].value # Null}

\* n lies within p and is not empty
Within(h, n, p) ==
    /\ h[p].start <= h[n].start
    /\ h[n].start < h[n].end
    /\ h[n].end <= h[p].end

\* C19: every node n of the AST a successful call returned, the root
\* excepted, has a parent, and n.parent.start <= n.start < n.end <=
\* n.parent.end.
C19_ChildWithinParent ==
    \A i \in Successful :
        \A n \in Tree(heap, calls[i].value) \ {calls[i].value} :
            /\ "parent" \in DOMAIN heap[n]
            /\ heap[n].parent # Null
            /\ Within(heap, n, heap[n].parent)

\* the properties that hold children, in the order of the source text
ChildOrder ==
    <<"pattern", "flags", "modifiers", "add", "remove", "min", "max",
      "alternatives", "elements", "element", "expression", "left", "right">>

RECURSIVE ChildrenFrom(_, _, _)
\* the children of h[id] under the properties ChildOrder[k] and later
ChildrenFrom(h, id, k) ==
    IF k > Len(ChildOrder) THEN <<>>
    ELSE
    LET key == ChildOrder[k]
        here == IF key \notin ChildKeys(h[id]) \cap DOMAIN h[id] THEN <<>>
                ELSE IF IsArrayKey(key)
                THEN SelectSeq(h[id][key], LAMBDA c : c # Null)
                ELSE IF h[id][key] = Null THEN <<>>
                ELSE <<h[id][key]>>
    IN here \o ChildrenFrom(h, id, k + 1)

\* the children of h[id], left to right
ChildSeq(h, id) == ChildrenFrom(h, id, 1)

RECURSIVE Traversal(_, _)
RECURSIVE TraversalOf(_, _)
\* the nodes of the tree below id, depth first and left to right, id first
Traversal(h, id) == <<id>> \o TraversalOf(h, ChildSeq(h, id))

TraversalOf(h, ids) ==
    IF ids = <<>> THEN <<>>
    ELSE Traversal(h, Head(ids)) \o TraversalOf(h, Tail(ids))

\* the characters of the raw of h[id]; a raw that is no string is written as
\* one item that is no character
RawOf(h, id) ==
    IF "str" \in DOMAIN h[id].raw THEN h[id].raw.str ELSE <<"Infinity">>

RECURSIVE ConcatRaw(_, _)
\* the raws of the nodes ids, one after another
ConcatRaw(h, ids) ==
    IF ids = <<>> THEN <<>>
    ELSE RawOf(h, Head(ids)) \o ConcatRaw(h, Tail(ids))

\* the nodes of the traversal that have no children
Leaves(h, root) ==
    SelectSeq(Traversal(h, root), LAMBDA n : ChildSeq(h, n) = <<>>)

\* C20: for every successful call, concatenating raw over the depth-first
\* left-to-right traversal of the returned AST gives source.slice(start,
\* end), whether the raws of all nodes or only those of the leaves are
\* concatenated.
C20_RawRoundTrip ==
    \A i \in Successful :
        LET root == calls[i].value
            text == slice(calls[i].source, calls[i].start, calls[i].end)
        IN \/ ConcatRaw(heap, Traversal(heap, root)) = text
           \/ ConcatRaw(heap, Leaves(heap, root)) = text

----------------------------------------------------------------------------
(* Properties of errors and of the cache under the parser API (SpecParse)   *)

\* the step is a call of the parser API
CallStep == Len(calls') = Len(calls) + 1

\* what the three caches hold: keys, values and timestamps, in Map order
\* (the counters of hits and misses are statistics, not contents)
Contents(g) ==
    <<g.literalCache.cache, g.patternCache.cache, g.flagsCache.cache>>

----------------------------------------------------------------------------
(* Properties of the LRUCache (SpecLRU)                                     *)

\* C22: when set adds a key at capacity, exactly one entry goes, and it is
\* the entry whose most recent access (a get that found it, or a set) is
\* older than that of every other entry, whether or not the clock ticked
\* between the accesses.
C22_EvictsLeastRecentlyUsed ==
    [][ \A k \in CacheKeys :
          (/\ LRUSet(k)
           /\ k \notin KeysOf(lru.c)
           /\ Len(lru.c.cache) >= lru.c.maxSize) =>
              KeysOf(lru'.c) = (KeysOf(lru.c) \ {Head(lru.used)}) \cup {k} ]_vars

----------------------------------------------------------------------------
(* Properties of the fast path (SpecFast)                                   *)

RECURSIVE Characters(_, _, _)
\* onCharacter(start + i, start + i + 1, code unit i) for i = k, k + 1, ...
Characters(S, start, k) ==
    IF S.threw \/ start + k >= Len(S.source) THEN S
    ELSE Characters(onCharacter(S, start + k, start + k + 1,
                                charCodeAt(S.source[start + k + 1])),
                    start, k + 1)

\* what the assembler of a new parser builds for call c from the events
\* onPatternEnter, onAlternativeEnter, one onCharacter per code unit,
\* onAlternativeLeave, onPatternLeave
Assembled(c) ==
    LET text == SubSeq(c.source, 1, c.end)
        S0 == [RegExpParserState(OptionsOf(c.parser))
                   @@ [heap |-> InitialHeap, threw |-> FALSE]
               EXCEPT !.source = text]
        S1 == onAlternativeEnter(onPatternEnter(S0, c.start), c.start)
        S2 == Characters(S1, c.start, 0)
    IN onPatternLeave(onAlternativeLeave(S2, c.start, c.end), c.start, c.end)

\* the parent of every node below root is the node that holds it
ParentsAgree(h, root) ==
    /\ h[root].parent = Null
    /\ \A n \in Tree(h, root) : \A m \in Children(h, n) : h[m].parent = n

\* C23: for a slice of word characters parsePattern returns, whatever the
\* flags and the parser's options, a tree with the structure of the one the
\* assembler builds from the event stream of the slice (kinds, offsets,
\* raws, values, child lists) and with the parent links of a tree; for any
\* other slice tryFastPath returns null.
C23_FastPathIsAssembler ==
    \A i \in Calls :
        LET c == calls[i] IN
        IF isSimpleLiteral(slice(c.source, c.start, c.end))
        THEN /\ ~c.threw /\ c.value # Null
             /\ LET A == Assembled(c) IN
                /\ ~A.threw
                /\ Canon(heap, c.value) = Canon(A.heap, A._node)
             /\ ParentsAgree(heap, c.value)
        ELSE tryFastPath(heap, c.source, c.start, c.end).value = Null

\* the fast path took a slice of two characters that starts inside its
\* source, and left another slice to the validator
C23_Witness ==
    \E i, j \in Calls :
        /\ calls[i].start > 0
        /\ calls[i].end - calls[i].start >= 2
        /\ isSimpleLiteral(slice(calls[i].source, calls[i].start, calls[i].end))
        /\ calls[i].value # Null
        /\ calls[i].flags.unicode
        /\ ~isSimpleLiteral(slice(calls[j].source, calls[j].start, calls[j].end))

----------------------------------------------------------------------------
(* Properties of the cache key (SpecOffset)                                 *)

\* C24: every node n of the AST a call returned lies in the input range of
\* that call, start <= n.start <= n.end <= end, and n.raw is the text of
\* that call's source between n.start and n.end, also when an earlier call
\* had the same slice at another offset or in another source.
C24_PositionedInOwnInput ==
    \A i \in Successful :
        \A n \in Tree(heap, calls[i].value) :
            /\ calls[i].start <= heap[n].start
            /\ heap[n].start <= heap[n].end
            /\ heap[n].end <= calls[i].end
            /\ heap[n].raw = Str(slice(calls[i].source, heap[n].start, heap[n].end))

----------------------------------------------------------------------------
(* Properties of cloneAST (SpecClone)                                       *)

\* the scalar fields of the nodes below root, in the order of the traversal
Scalars(h, root) ==
    LET nodes == Traversal(h, root) IN
    [k \in 1 .. Len(nodes) |->
        [f \in ScalarKeys(h[nodes[k]]) |-> h[nodes[k]][f]]]

\* C25: the AST the cache hands out has, node by node, the scalar fields of
\* the AST that was stored: a Quantifier's max of Infinity is the number
\* Infinity, and every string field is the same string, whatever the string.
C25_CloneKeepsScalars ==
    \A i, j \in Successful :
        (/\ i < j
         /\ ~calls[i].hit /\ calls[j].hit
         /\ SameCall(calls[i], calls[j])) =>
            Scalars(heap, calls[j].value) = Scalars(heap, calls[i].value)

----------------------------------------------------------------------------
(* Properties of the links of returned ASTs (SpecParse)                     *)

\* the groups b resolves to
ResolvedOf(h, b) ==
    IF "resolved" \in DOMAIN h[b] THEN Targets("resolved", h[b].resolved) ELSE {}

\* the backreferences g lists
ReferencesOf(h, g) ==
    IF "references" \in DOMAIN h[g] THEN Targets("references", h[g].references)
    ELSE {}

\* C26: in every returned AST, a Backreference b is in g.references exactly
\* when the CapturingGroup g is what b resolved to; every such b and g is a
\* node of the tree under the root, and b is an element of the Alternative
\* that is its parent.
C26_LinksAgreeInsideTree ==
    \A i \in Successful :
        LET root == calls[i].value
            all == Reachable(heap, root)
            B == {n \in all : TypeOf(heap, n) = "Backreference"}
            G == {n \in all : TypeOf(heap, n) = "CapturingGroup"}
        IN /\ \A b \in B : \A g \in G :
                b \in ReferencesOf(heap, g) <=> g \in ResolvedOf(heap, b)
           /\ (B \cup G) \subseteq Tree(heap, root)
           /\ \A b \in B :
                /\ TypeOf(heap, heap[b].parent) = "Alternative"
                /\ \E k \in DOMAIN heap[heap[b].parent].elements :
                       heap[heap[b].parent].elements[k] = b

----------------------------------------------------------------------------
(* Properties of the parent and child links while the tree is assembled     *)
(* (SpecLinks)                                                              *)

\* the child slots of the nodes and what they hold:
\* <<holder, key, position, held>>
Slots(h, nodes) ==
    UNION { UNION { IF IsArrayKey(k)
                    THEN {<<p, k, i, h[p][k][i]>> : i \in DOMAIN h[p][k]}
                    ELSE {<<p, k, 1, h[p][k]>>}
                  : k \in ChildKeys(h[p]) \cap DOMAIN h[p] }
          : p \in nodes }

\* every node but the root is in exactly one child slot of the nodes, and
\* that slot is one of the node its parent field names
InOneSlotOfParent(h, nodes, root) ==
    Bind(Slots(h, nodes),
         LAMBDA slots :
             \A m \in nodes \ {root} :
                 /\ "parent" \in DOMAIN h[m]
                 /\ Cardinality({s \in slots : s[4] = m}) = 1
                 /\ \A s \in slots : s[4] = m => s[1] = h[m].parent)

\* the expressions the buffer map holds for the classes that are its keys
BufferedExpressions ==
    LET map == _state[AsmParser]._expressionBufferMap
    IN {map[i].value : i \in 1 .. Len(map)}

\* the nodes that are or will be part of the AST: those of the tree under
\* the Pattern and those under the buffered expressions
InProgress == TreeFrom(heap, {CurrentPattern} \cup BufferedExpressions)

----------------------------------------------------------------------------
(* Properties of the cursor checks (SpecTree)                               *)

\* the event raised an error and left every node as it was
Refused == threw' /\ heap' = heap

\* the event, arriving at a cursor that is no node of the kind, is refused
RefusedUnless(Event, kind) ==
    (Event /\ TypeOf(heap, Cursor) # kind) => Refused

\* C28: a Leave event that arrives while the cursor is not a node of the
\* kind being left raises an error and changes no node, and an Enter or
\* leaf event either adds its node or raises an error and changes no node.
C28_WrongCursorIsRefused ==
    /\ [][ /\ RefusedUnless(OnPatternLeave, "Pattern")
           /\ RefusedUnless(OnAlternativeLeave, "Alternative")
           /\ RefusedUnless(OnGroupLeave, "Group")
           /\ RefusedUnless(OnModifiersLeave, "Modifiers")
           /\ RefusedUnless(OnCapturingGroupLeave, "CapturingGroup")
           /\ RefusedUnless(OnLookaroundAssertionLeave, "Assertion")
           /\ RefusedUnless(OnCharacterClassLeave, "CharacterClass")
           /\ RefusedUnless(OnClassStringDisjunctionLeave, "ClassStringDisjunction")
           /\ RefusedUnless(OnStringAlternativeLeave, "StringAlternative") ]_vars
    /\ [][ (EnterEvent \/ OnCharacter) =>
             Refused \/ (~threw' /\ Len(heap') = Len(heap) + 1) ]_vars

----------------------------------------------------------------------------
(* Properties of onCharacterClassRange (SpecClass)                          *)

\* the trailing elements a range is made of: 2 in a class with unicodeSets,
\* 3 in a class without
Trailing(h, c) == IF h[c].unicodeSets THEN 2 ELSE 3

\* the trailing elements of the class c have the shape of a range
RangeShape(h, c) ==
    /\ TypeOf(h, c) = "CharacterClass"
    /\ LET els == h[c].elements
           n == Len(els)
       IN /\ n >= Trailing(h, c)
          /\ TypeOf(h, els[n]) = "Character"
          /\ TypeOf(h, els[n - Trailing(h, c) + 1]) = "Character"
          /\ ~h[c].unicodeSets =>
                /\ TypeOf(h, els[n - 1]) = "Character"
                /\ h[els[n - 1]].value = HYPHEN_MINUS

\* C29: onCharacterClassRange on a class whose trailing elements are
\* Character, hyphen Character, Character (without unicodeSets) or
\* Character, Character (with unicodeSets) puts one CharacterClassRange in
\* their place, with min the first and max the last of them, both with the
\* range as parent; the elements before them and all other nodes, the
\* hyphen included, stay as they were; on any other shape, and on any
\* other cursor, the event raises an error.
C29_RangeReplacesTrailing ==
    [][ OnCharacterClassRange =>
          IF RangeShape(heap, Cursor)
          THEN LET els == heap[Cursor].elements
                   n == Len(els)
                   first == n - Trailing(heap, Cursor) + 1
                   range == Len(heap) + 1
               IN /\ ~threw'
                  /\ Len(heap') = range
                  /\ heap'[range].type = "CharacterClassRange"
                  /\ heap'[range].parent = Cursor
                  /\ heap'[range].min = els[first]
                  /\ heap'[range].max = els[n]
                  /\ heap'[Cursor] =
                         [heap[Cursor] EXCEPT
                             !.elements = Append(SubSeq(els, 1, first - 1), range)]
                  /\ heap'[els[first]] = [heap[els[first]] EXCEPT !.parent = range]
                  /\ heap'[els[n]] = [heap[els[n]] EXCEPT !.parent = range]
                  /\ \A m \in DOMAIN heap :
                         m \notin {Cursor, els[first], els[n]} => heap'[m] = heap[m]
                  /\ _state'[AsmParser]._node = Cursor
          ELSE threw' ]_vars

\* a class without unicodeSets holds a range and nothing else; the hyphen
\* between min and max is in no list
C29_Witness ==
    /\ InPattern /\ ~threw
    /\ TypeOf(heap, Cursor) = "CharacterClass"
    /\ ~heap[Cursor].unicodeSets
    /\ Len(heap[Cursor].elements) = 1
    /\ LET r == heap[Cursor].elements[1] IN
       /\ TypeOf(heap, r) = "CharacterClassRange"
       /\ heap[heap[r].min].parent = r
       /\ heap[heap[r].max].parent = r
       /\ heap[heap[r].min].end < heap[heap[r].max].start
       /\ \E hyphen \in Discarded(Cursor) : heap[hyphen].value = HYPHEN_MINUS

----------------------------------------------------------------------------
(* Properties of the expression buffers (SpecBuffer)                        *)

ExpressionBufferMap == _state[AsmParser]._expressionBufferMap

\* C30: an onClassIntersection or onClassSubtraction event in a class that
\* has a buffered expression builds a node with that expression as left and
\* the last element of the class as right, and buffers it for the class; no
\* event changes the buffer of a class other than the cursor; and when a
\* pattern has been left without an error the expression buffer map is
\* empty.
C30_BuffersPerOpenClass ==
    /\ [][ ((OnClassIntersection \/ OnClassSubtraction)
               /\ ~threw' /\ Buffered # Null) =>
             LET node == Len(heap) + 1 IN
             /\ Len(heap') = node
             /\ heap'[node].left = Buffered
             /\ heap'[node].right = Last(heap[Cursor].elements)
             /\ BufferGet(ExpressionBufferMap', Cursor) = node ]_vars
    /\ [][ \A c \in DOMAIN heap :
             c # Cursor =>
                 BufferGet(ExpressionBufferMap', c) = BufferGet(ExpressionBufferMap, c)
         ]_vars
    /\ [][ (OnPatternLeave /\ ~threw' /\ Cursor = CurrentPattern) =>
             ExpressionBufferMap' = <<>> ]_vars

----------------------------------------------------------------------------
(* Properties of the properties of strings (SpecLeaf)                       *)

\* a unicode property character set of strings
PropertyOfStrings(h, n) ==
    /\ TypeOf(h, n) = "CharacterSet"
    /\ h[n].kind = "property"
    /\ h[n].strings

\* the only placement of a property of strings: an element of a class with
\* unicodeSets, not negated and without a value
InClassSet(h, n) ==
    /\ TypeOf(h, h[n].parent) = "CharacterClass"
    /\ h[h[n].parent].unicodeSets
    /\ ~h[n].negate
    /\ h[n].value = NullValue

\* C31: a unicode property character set with strings = true is in the
\* tree only as an element of a character class with unicodeSets = true,
\* with negate = false and value = null, and onUnicodePropertyCharacterSet
\* adds such a set in no other placement: it raises an error there.
C31_StringsOnlyInClassSets ==
    /\ [](\A n \in DOMAIN heap : PropertyOfStrings(heap, n) => InClassSet(heap, n))
    /\ [][ (OnUnicodePropertyCharacterSet /\ ~threw') =>
             LET n == Len(heap) + 1 IN
             PropertyOfStrings(heap', n) => InClassSet(heap', n) ]_vars

----------------------------------------------------------------------------
(* Properties of one pattern after another on one state (SpecReuse)         *)

\* the nodes made since the last onPatternEnter
OfCurrentParse(n) == n > CurrentPattern

\* C32: onPatternEnter empties the list of pending backreferences and the
\* list of capturing groups; while a pattern is open the two lists hold
\* only nodes made since its onPatternEnter, also when an earlier pattern
\* was given up in the middle of its events; and an onPatternLeave that
\* completes resolves every pending backreference to groups of the current
\* pattern only, \1 to the first group entered in it, and leaves every node
\* of an earlier pattern as it was.
C32_NoLeakBetweenParses ==
    /\ [][ OnPatternEnter =>
             /\ _state'[AsmParser]._backreferences = <<>>
             /\ _state'[AsmParser]._capturingGroups = <<>> ]_vars
    /\ [](InPattern =>
             /\ \A b \in Pending : OfCurrentParse(b)
             /\ \A i \in 1 .. Len(_state[AsmParser]._capturingGroups) :
                    OfCurrentParse(_state[AsmParser]._capturingGroups[i]))
    /\ [][ (OnPatternLeave /\ ~threw') =>
             /\ \A b \in Pending :
                  /\ \A g \in ResolvedOf(heap', b) : OfCurrentParse(g)
                  /\ heap[b].ref = Num(1) =>
                        heap'[b].resolved =
                            One(SetMin({g \in Nodes("CapturingGroup") :
                                           OfCurrentParse(g)}))
             /\ \A n \in DOMAIN heap :
                  ~OfCurrentParse(n) /\ n # CurrentPattern => heap'[n] = heap[n] ]_vars

\* a pattern with a group was given up, and the pattern entered after it
\* resolved its \1 to its own group
C32_Witness ==
    \E g1, g2 \in Nodes("CapturingGroup") : \E b \in Nodes("Backreference") :
        /\ g1 < CurrentPattern /\ CurrentPattern < g2 /\ CurrentPattern < b
        /\ ~open[AsmParser] /\ ~threw
        /\ heap[b].ref = Num(1)
        /\ heap[b].resolved = One(g2)
        /\ heap[g2].references = <<b>>
        /\ heap[g1].references = <<>>

----------------------------------------------------------------------------
(* Properties of the ASTs callers hold (SpecFrame)                          *)

----------------------------------------------------------------------------
(* Properties of the branch cursor (SpecGroups)                             *)

\* C34: in GroupSpecifiersAsES2025, leaveDisjunction makes the current
\* branch the very branch that was current before the matching
\* enterDisjunction, whatever alternatives and nested disjunctions were
\* entered and left in between; enterAlternative(0) keeps the branch, and
\* enterAlternative(k) for k >= 1 makes a new branch the current one, with
\* the parent and the base of the branch it replaces.
C34_LeaveRestoresBranch ==
    /\ [][ LeaveDisjunction =>
             groupSpecifiers2025'.branchID = Innermost.before ]_vars
    /\ [][ (EnterAlternative /\ Innermost.alternative + 1 = 0) =>
             groupSpecifiers2025' = groupSpecifiers2025 ]_vars
    /\ [][ (EnterAlternative /\ Innermost.alternative + 1 >= 1) =>
             LET bs == groupSpecifiers2025.branches
                 was == groupSpecifiers2025.branchID
                 new == Len(groupSpecifiers2025.branches) + 1
             IN /\ groupSpecifiers2025'.branchID = new
                /\ Len(groupSpecifiers2025'.branches) = new
                /\ SubSeq(groupSpecifiers2025'.branches, 1, Len(bs)) = bs
                /\ groupSpecifiers2025'.branches[new].parent = bs[was].parent
                /\ groupSpecifiers2025'.branches[new].base = bs[was].base ]_vars

\* the inner of two nested disjunctions was left from its second
\* alternative: the current branch is the first alternative of the outer
C34_Witness ==
    LET g == groupSpecifiers2025 IN
    /\ Len(walk.nesting) = 1 /\ walk.entered = 2
    /\ Len(g.branches) = 4
    /\ g.branchID = 2
    /\ g.branches[3].parent = 2
    /\ g.branches[4].parent = 2 /\ g.branches[4].base = 3

----------------------------------------------------------------------------
(* Properties of BranchID.separatedFrom as a relation (SpecGroups)          *)

\* the branches above A, nearest first
RECURSIVE Ancestors(_, _)
Ancestors(bs, A) ==
    IF bs[A].parent = Null THEN {}
    ELSE {bs[A].parent} \cup Ancestors(bs, bs[A].parent)

\* C35: on every branch tree the specifiers build, separatedFrom gives an
\* answer for every two branches, the same answer in both directions, false
\* for a branch and itself, and false for a branch and any of its ancestors
\* (so also for a branch and any of its descendants).
C35_SeparatedIsSymmetricIrreflexive ==
    LET bs == groupSpecifiers2025.branches IN
    \A A, B \in DOMAIN bs :
        /\ separatedFrom(bs, A, B) \in BOOLEAN
        /\ separatedFrom(bs, A, B) = separatedFrom(bs, B, A)
        /\ ~separatedFrom(bs, A, A)
        /\ B \in Ancestors(bs, A) =>
              ~separatedFrom(bs, A, B) /\ ~separatedFrom(bs, B, A)

\* a branch two levels down is separated, in both directions, from the
\* sibling of its parent, and has the root as an ancestor of its parent
C35_Witness ==
    LET bs == groupSpecifiers2025.branches IN
    \E A, B \in DOMAIN bs :
        /\ Cardinality(Ancestors(bs, A)) = 2
        /\ bs[A].parent # Null /\ Siblings(bs, bs[A].parent, B)
        /\ separatedFrom(bs, A, B) /\ separatedFrom(bs, B, A)

----------------------------------------------------------------------------
(* Properties of the size of the LRUCache (SpecLRU)                         *)

Entries(c) == {c.cache[i] : i \in 1 .. Len(c.cache)}

\* the entries no entry is older than
Oldest(c) ==
    {e \in Entries(c) : \A f \in Entries(c) : e.timestamp <= f.timestamp}

\* C36: the cache never holds more than maxSize entries (maxSize >= 1),
\* whatever get, set, has and clear calls were made, and a set at capacity
\* removes exactly one entry, one that no entry is older than, and then
\* puts its key: has and clear aside, the other entries stay.
C36_NeverAboveCapacity ==
    /\ [](/\ lru.c.maxSize >= 1
          /\ Len(lru.c.cache) <= lru.c.maxSize
          /\ Cardinality(KeysOf(lru.c)) = Len(lru.c.cache))
    /\ [][ \A k \in CacheKeys :
             (LRUSet(k) /\ Len(lru.c.cache) >= lru.c.maxSize) =>
                 /\ k \in KeysOf(lru'.c)
                 /\ \E e \in Oldest(lru.c) :
                       {f \in Entries(lru'.c) : f.key # k}
                           = {f \in Entries(lru.c) \ {e} : f.key # k} ]_vars
    /\ [][ \A k \in CacheKeys :
             (LRUSet(k) /\ Len(lru.c.cache) < lru.c.maxSize) =>
                 {f \in Entries(lru'.c) : f.key # k}
                     = {f \in Entries(lru.c) : f.key # k} ]_vars

\* a set of a new key has just been made at capacity, after a tick: the
\* cache is full and holds the key
C36_Witness ==
    /\ lru.last = [op |-> "set", key |-> "c", found |-> FALSE, size |-> SmallSize]
    /\ Len(lru.c.cache) = SmallSize
    /\ "c" \in KeysOf(lru.c)
    /\ \E e, f \in Entries(lru.c) : e.timestamp < f.timestamp

\* C37: a set for a key that is in the cache replaces the value and the
\* timestamp of that key only: the keys of the cache stay the same, also
\* at capacity.
C37_UpdateKeepsKeys ==
    [][ \A k \in CacheKeys :
          (LRUSet(k) /\ LRUCache_has(lru.c, k)) =>
              KeysOf(lru'.c) = KeysOf(lru.c) ]_vars

----------------------------------------------------------------------------
(* Properties of the visitor (SpecVisit)                                    *)

\* the call of the handler of type and phase of node, where one was given
HandlerCall(h, node, phase) ==
    LET given == [type |-> h[node].type, phase |-> phase, lower |-> FALSE] IN
    IF given \in Handlers THEN <<[handler |-> given, node |-> node]>> ELSE <<>>

RECURSIVE Bracketed(_, _)
RECURSIVE BracketedEach(_, _)
\* Enter of the node, then its children one after another in the order of
\* ChildOrder, each bracketed in the same way, then Leave of the node
Bracketed(h, node) ==
    HandlerCall(h, node, "Enter") \o BracketedEach(h, ChildSeq(h, node))
        \o HandlerCall(h, node, "Leave")

BracketedEach(h, nodes) ==
    IF nodes = <<>> THEN <<>>
    ELSE Bracketed(h, Head(nodes)) \o BracketedEach(h, Tail(nodes))

\* C38: visit of an AST ends without an error, and its handler calls are,
\* for every node reachable through child fields, Enter once before and
\* Leave once after the calls for the nodes below it, siblings in list
\* order (modifiers before alternatives, add before remove, min before
\* max, left before right, pattern before flags), with no call for a node
\* that is reachable only through references or resolved.
C38_VisitBracketsSubtrees ==
    visitor.root # Null =>
        /\ ~visitor.v.threw
        /\ visitor.v.log = Bracketed(heap, visitor.root)

----------------------------------------------------------------------------
(* Properties of the object pool (SpecPool)                                 *)

\* C39: whatever acquire, release and releaseAll calls are made, also when
\* an object is released twice, an object acquire returned is returned by
\* no other acquire until it is released again: no object has two holders;
\* the pool never holds more than maxSize objects, and every object it
\* holds has been reset.
C39_OneHolderAtATime ==
    /\ \A i, j \in 1 .. Len(pool.holders) :
           i # j => pool.holders[i] # pool.holders[j]
    /\ Len(pool.p.pool) <= pool.p.maxSize
    /\ \A i \in 1 .. Len(pool.p.pool) :
           pool.objects[pool.p.pool[i]] = resetElementsNode(pool.objects[pool.p.pool[i]])

====
